---- MODULE Spec2Model ----
(***************************************************************************)
(* A model of the here_v2 companion service: the leader-elected proactive  *)
(* scheduler (services/proactiveMessaging.js), the Redis store operations  *)
(* it relies on (services/redis.js), the webhook idempotency check         *)
(* (routes/webhook.js), the two-layer crisis detection                     *)
(* (services/crisisDetection.js) and the inbound message handler           *)
(* (handlers/messageHandler.js) with the onboarding state machine.         *)
(*                                                                         *)
(* Every await of the JavaScript code is a point where another handler,    *)
(* another replica or a background promise may run, so each store call,    *)
(* LLM call and gateway call is a step of its own wherever the code reads  *)
(* and later writes the same record.                                       *)
(***************************************************************************)
EXTENDS Integers, Sequences, FiniteSets, TLC

\* ------------------------------------------------------------------ bounds
NumReplicas == 2
MaxClock == 4
MaxTicks == 3
NumDeliveries == 3
NumEvents == 2
NumHandlers == 1
MaxEvents == 2
NumCallers == 2
MaxAppends == 4
\* Entries a journal bucket holds before the call looked at.
MaxStored == 3

\* --------------------------------------------------------------- constants
\* JavaScript null / undefined of a timestamp field (both are falsy, as is 0).
Null == 0
\* No lock record under proactive:leader:lock.
NoHolder == 0
\* The lease of the leader lock, in ageing steps (config lockTTL, 300 s).
LockTTL == 2
\* The cap of the conversation history (maxMessages, 50 in redis.js).
maxMessages == 2
\* A day is cut at 00:00, 09:00 and 20:00: a time t is day t \div 3 and
\* slot t % 3 (0: before 09:00, 1: from 09:00, 2: from 20:00).  The timestamp
\* 09:00 of day d is 3d+1, 20:00 of day d is 3d+2, and now >= stamp is >=.
SlotsPerDay == 3

\* proactiveMessaging.js withRetry: maxRetries = 3.
maxRetries == 3

\* The longest reply sendResponse is given and the largest maxLength.
MaxText == 5
MaxLimit == 3

Replicas == 1..NumReplicas
Users == {"u1", "u2"}
Deliveries == 1..NumDeliveries
EventIds == 1..NumEvents
Callers == 1..NumCallers
Handlers == 1..NumHandlers

VARIABLES
  \* --- the store (Redis)
  lock,        \* proactive:leader:lock: [holder, ttl]
  schedule,    \* scheduled:<phone>: [exists, nextCheckIn, nextJournalPrompt, followUps]
  \* --- the wall clock (Date.now())
  clock,
  \* --- one ProactiveMessaging instance per replica
  isLeader,    \* this.isLeader
  spc,         \* position of the replica's cron callback
  ticks,       \* cron callbacks started so far, over all replicas
  now,         \* const now = Date.now() of checkAndSendProactiveMessages
  queue,       \* scheduledUsers still to process, head = current phoneNumber
  rd,          \* the schedule as getSchedule returned it
  loc,         \* the local schedule object processUserSchedule mutates
  updated,     \* let updated
  \* --- observation (not program state)
  acq,         \* [replica] -> what acquireLock answered it for the present lock record
  checkInSent, \* [user][due value] -> morning check-ins handed to the gateway
  followUpSent,\* [user][followUp.time] -> dispatches of that follow-up to the gateway
  tickFired,   \* [replica] -> <<user, kind>> fired in the replica's current scan
  \* --- the webhook route POST /message, one entry per delivery
  marker,      \* idempotency:<messageId> exists
  dpc,         \* position of the delivery's route handler
  dev,         \* webhookData.messageId of the delivery
  answer,      \* the HTTP answer of the delivery
  handled,     \* [messageId] -> runs of the event handler (observation)
  expired,     \* [messageId] -> its marker ran out of its TTL (observation)
  \* --- one call of detectCrisis
  cpc,         \* "call" before, "returned" after
  cKeyword,    \* containsCrisisKeyword(message)
  cLLM,        \* what the external assessment does
  cStoreOK,    \* whether the store takes the crisis log and the follow-up
  cResult,     \* what detectCrisis returned and did
  \* --- inbound text events of one identity (handleMessage)
  profile,     \* the stored user:<phone> record
  configured,  \* conversationEngine.client / crisisDetection.client is set
  events,      \* inbound events received so far
  hpc,         \* [handler] -> position in handleMessage
  hmsg,        \* [handler] -> webhookData.content, by what the code tests of it
  huser,       \* [handler] -> the `user` saveJournalEntry read
  isNewUser,   \* [handler] -> user.stats.messageCount === 0
  crisisResult,\* [handler] -> what the handler keeps of detectCrisis' result
  response,    \* [handler] -> the text being put together
  todo,        \* [handler] -> store calls left in processOnboarding / saveJournalEntry
  existing,    \* [handler] -> `existing` inside updateUser
  outbox,      \* [handler] -> texts handed to sendResponse for the event (observation)
  generated,   \* [handler] -> generateResponse was called for the event (observation)
  onboarded,   \* [handler] -> processOnboarding was called for the event (observation)
  bpc,         \* [handler] -> position of the background task of updateUserStats
  bUser,       \* [handler] -> the `user` the background task closed over
  bExisting,   \* [handler] -> `existing` inside the background updateUser
  erased,      \* deleteUserData ran and no inbound event arrived since (observation)
  stopped,     \* the stop command was handled, no resume or opt-in since (observation)
  journal,     \* the entries of the identity's journal bucket of the day
  pre,         \* [handler] -> messageCount, stage and pushed when the event arrived (observation)
  failure,     \* [handler] -> the LLM or store call that failed for the event (observation)
  welcomes,    \* welcome messages handed over since the last erasure (observation)
  asked,       \* onboarding prompt 3 and the events since it was handed over (observation)
  \* --- the conversation history of one identity and the calls of addMessage
  history,     \* the list conversations:<phone>, oldest first
  apc,         \* [caller] -> position in addMessage
  alen,        \* [caller] -> `length`, the reply of LLEN
  pushed,      \* messages appended so far; message k is the k-th one (observation)
  \* --- one call of sendResponse
  outText,     \* `text`, the reply to send
  outMax,      \* `maxLength`
  parts,       \* `messages`, the segments splitMessage returned
  sendpc,      \* position in sendResponse
  attempts,    \* the sendMessage calls made so far, each with its outcome (observation)
  \* --- one operation of RedisService under withRetry
  wop,         \* the operation called: getUser, setUser or updateUser
  wpc,         \* where it is: the store call it is about to make, or how it ended
  outerI,      \* `i` of the withRetry of updateUser
  innerI,      \* `i` of the withRetry of getUser or setUser
  storeCalls,  \* client.get and client.set calls made so far (observation)
  delays,      \* the delays slept so far, in seconds (observation)
  \* --- one addMessage or addJournalEntry under withRetry
  opName,      \* the method called
  oppc,        \* the store call it is about to make, or how it ended
  opI,         \* `i` of withRetry
  conv,        \* conversations:<phone>, a list
  bucket,      \* journal:<phone>:<date>, the entries of the stored journalData
  held,        \* journalData.entries of the running attempt
  length,      \* `length` of addMessage
  \* --- concurrent handleMessage calls of one identity, as far as they write the profile
  gpc,         \* position of each call
  gUser        \* `user` of updateUserStats

schedVars == <<lock, schedule, clock, isLeader, spc, ticks, now, queue, rd, loc,
               updated, acq, checkInSent, followUpSent, tickFired>>
idemVars == <<marker, dpc, dev, answer, handled, expired>>
crisisVars == <<cpc, cKeyword, cLLM, cStoreOK, cResult>>

handlerVars == <<profile, configured, events, hpc, hmsg, huser, isNewUser, crisisResult,
                 response, todo, existing, outbox, generated, onboarded, bpc, bUser,
                 bExisting, erased, stopped, journal, pre, failure, welcomes, asked, history, apc, alen,
                 pushed>>
\* What handleMessage and its background task use of these.
handlerOwn == <<profile, configured, events, hpc, hmsg, huser, isNewUser, crisisResult,
                response, todo, existing, outbox, generated, onboarded, bpc, bUser,
                bExisting, erased, stopped, journal, pre, failure, welcomes, asked>>
\* The scheduler's variables but the schedules, which handlers write too.
schedLocals == <<lock, clock, isLeader, spc, ticks, now, queue, rd, loc, updated, acq,
                 checkInSent, followUpSent, tickFired>>
sendVars == <<outText, outMax, parts, sendpc, attempts>>
\* What the scheduler, the webhook, detectCrisis and handleMessage leave alone.
retryVars == <<wop, wpc, outerI, innerI, storeCalls, delays>>
appendVars == <<opName, oppc, opI, conv, bucket, held, length>>
createVars == <<gpc, gUser>>
storeVars == <<appendVars, createVars>>
utilVars == <<sendVars, retryVars, storeVars>>
vars == <<schedVars, idemVars, crisisVars, handlerVars, utilVars>>

\* ------------------------------------------------------------ time helpers
Day(t) == t \div SlotsPerDay

\* A mutant of getNextCheckInTime: setDate(getDate() + 1) forgotten, 09:00 today.
getNextCheckInTimeToday(t) == Day(t) * SlotsPerDay + 1

\* proactiveMessaging.js getNextCheckInTime: 09:00 of the day after new Date().
getNextCheckInTime(t) == (Day(t) + 1) * SlotsPerDay + 1

\* proactiveMessaging.js getNextJournalPromptTime: 20:00 of the day after new Date().
getNextJournalPromptTime(t) == (Day(t) + 1) * SlotsPerDay + 2

MaxStamp == (Day(MaxClock) + 2) * SlotsPerDay

\* -------------------------------------------------------- store operations
NoLock == [holder |-> NoHolder, ttl |-> 0]

\* A mutant of acquireLock: SET without NX overwrites the record and answers OK.
acquireLockNoNX(lk, value) ==
  [lock |-> [holder |-> value, ttl |-> LockTTL], result |-> TRUE]

\* redis.js acquireLock: SET key value EX ttl NX, true iff the reply is OK.
acquireLock(lk, value) ==
  IF lk.holder = NoHolder
    THEN [lock |-> [holder |-> value, ttl |-> LockTTL], result |-> TRUE]
    ELSE [lock |-> lk, result |-> FALSE]

\* redis.js extendLock: EXPIRE key ttl, whoever holds the record.
extendLock(lk) ==
  IF lk.holder = NoHolder THEN lk ELSE [lk EXCEPT !.ttl = LockTTL]

NoSchedule ==
  [exists |-> FALSE, nextCheckIn |-> Null, nextJournalPrompt |-> Null, followUps |-> <<>>]

\* redis.js getAllScheduledUsers: KEYS scheduled:* (the order is Redis's).
ScheduledUsers == {u \in Users : schedule[u].exists}

Perms(S) ==
  {q \in [1..Cardinality(S) -> S] : \A i, j \in 1..Cardinality(S) : i # j => q[i] # q[j]}

\* ------------------------------------------------------- crisis detection
\* crisisPrompt.js getCrisisAssessmentPrompt: follow_up_hours is null or a number.
NoHours == -1

Levels == {"low", "medium", "high", "critical"}

\* What the external assessment layer can do in assessWithLLM: no client
\* (no API key), messages.create throws (an API error or a timeout), the text
\* is not JSON or has no level, or a parsed assessment.  A parsed level may be
\* a string outside the four levels.
LLMOutcomes ==
  [kind : {"unconfigured", "throws", "unparseable"}, level : {"low"},
   follow_up_hours : {NoHours}]
  \cup [kind : {"assessment"}, level : Levels \cup {"other"},
        follow_up_hours : {NoHours, 0, 24}]

\* crisisDetection.js assessWithLLM: the assessment, or null.
assessWithLLM(llm) ==
  IF llm.kind = "assessment"
    THEN [isNull |-> FALSE, level |-> llm.level, follow_up_hours |-> llm.follow_up_hours]
    ELSE [isNull |-> TRUE, level |-> "low", follow_up_hours |-> NoHours]

\* crisisDetection.js detectCrisis, line 316: riskOrder[level] || 0.
riskOrder(level) ==
  CASE level = "low" -> 0
    [] level = "medium" -> 1
    [] level = "high" -> 2
    [] level = "critical" -> 3
    [] OTHER -> 0

\* crisisPrompt.js getCrisisResponse: the canned text of the level, or null.
getCrisisResponse(level) ==
  CASE level = "critical" -> "crisis_critical"
    [] level = "high" -> "crisis_high"
    [] level = "medium" -> "crisis_medium"
    [] OTHER -> "null"

NoResult ==
  [isCrisis |-> FALSE, riskLevel |-> "low", keywordMatch |-> FALSE,
   crisisResponse |-> "null", shouldFollowUp |-> FALSE, followUpHours |-> NoHours,
   logged |-> FALSE, followUpAdded |-> FALSE]

\* A mutant of detectCrisis: the level of the assessment replaces the level of
\* the keyword layer whenever there is an assessment.
detectCrisisOverride(keyword, llm, storeOK) ==
  LET a == assessWithLLM(llm)
      level == IF a.isNull THEN (IF keyword THEN "high" ELSE "low") ELSE a.level
      isCrisis == level # "low"
  IN [isCrisis |-> isCrisis, riskLevel |-> level, keywordMatch |-> keyword,
      crisisResponse |-> IF isCrisis THEN getCrisisResponse(level) ELSE "null",
      shouldFollowUp |-> ~a.isNull /\ a.follow_up_hours # NoHours,
      followUpHours |-> a.follow_up_hours,
      logged |-> isCrisis /\ storeOK,
      followUpAdded |-> isCrisis /\ storeOK /\ ~a.isNull /\ a.follow_up_hours > 0]

\* A mutant of detectCrisis: isCrisis is recomputed from the assessment even
\* when there is none, so a failed external layer clears the keyword match.
detectCrisisFailOpen(keyword, llm, storeOK) ==
  LET a == assessWithLLM(llm)
      floor == IF keyword THEN "high" ELSE "low"
      level == IF ~a.isNull /\ riskOrder(a.level) > riskOrder(floor)
                 THEN a.level ELSE floor
      isCrisis == ~a.isNull /\ level # "low"
  IN [isCrisis |-> isCrisis, riskLevel |-> level, keywordMatch |-> keyword,
      crisisResponse |-> IF isCrisis THEN getCrisisResponse(level) ELSE "null",
      shouldFollowUp |-> ~a.isNull /\ a.follow_up_hours # NoHours,
      followUpHours |-> a.follow_up_hours,
      logged |-> isCrisis /\ storeOK,
      followUpAdded |-> isCrisis /\ storeOK /\ ~a.isNull /\ a.follow_up_hours > 0]

\* crisisDetection.js detectCrisis.  Layer 1 sets the floor high on a keyword
\* match; layer 2 raises the level when the assessment ranks higher and then
\* recomputes isCrisis; a throw of layer 2 is caught.  On a crisis the canned
\* response is attached, logCrisisEvent and scheduleFollowUp run (both catch
\* their store errors).  logged and followUpAdded are what reached the store.
detectCrisis(keyword, llm, storeOK) ==
  LET a == assessWithLLM(llm)
      floor == IF keyword THEN "high" ELSE "low"
      level == IF ~a.isNull /\ riskOrder(a.level) > riskOrder(floor)
                 THEN a.level ELSE floor
      isCrisis == IF a.isNull THEN keyword ELSE level # "low"
      shouldFollowUp == ~a.isNull /\ a.follow_up_hours # NoHours
  IN [isCrisis |-> isCrisis, riskLevel |-> level, keywordMatch |-> keyword,
      crisisResponse |-> IF isCrisis THEN getCrisisResponse(level) ELSE "null",
      shouldFollowUp |-> shouldFollowUp,
      followUpHours |-> a.follow_up_hours,
      logged |-> isCrisis /\ storeOK,
      followUpAdded |-> isCrisis /\ storeOK /\ shouldFollowUp /\ a.follow_up_hours # 0]

\* ------------------------------------------------- inbound text events
\* config/index.js onboardingStages.
INITIAL == 0
ASK_NAME == 1
ASK_REASON == 2
ASK_CHECKIN == 3
COMPLETE == 4

\* redis.js getUser returning null.  name stands for `name` being non-null.
NoUser ==
  [exists |-> FALSE, onboardingStage |-> INITIAL, name |-> FALSE,
   messageCount |-> 0, journalCount |-> 0]

\* redis.js createUser: the record of a new identity.
newUser == [NoUser EXCEPT !.exists = TRUE]

\* Profiles an identity can have when an event arrives.
InitProfiles ==
  {NoUser, newUser,
   [newUser EXCEPT !.messageCount = 2],
   [newUser EXCEPT !.onboardingStage = ASK_NAME, !.messageCount = 2],
   [newUser EXCEPT !.onboardingStage = ASK_REASON, !.messageCount = 5, !.name = TRUE],
   [newUser EXCEPT !.onboardingStage = ASK_CHECKIN, !.messageCount = 10, !.name = TRUE],
   [newUser EXCEPT !.onboardingStage = COMPLETE, !.messageCount = 10, !.name = TRUE]}

NoMessage ==
  [kind |-> "none", keyword |-> FALSE, name |-> FALSE, checkIn |-> "none", text |-> <<"w">>]

\* A text is a sequence of pieces: "j", "J", "ournal", ":", " " (white space)
\* and "w" (words that hold none of the others).  toLowerCase on it:
toLowerCase(text) == [i \in DOMAIN text |-> IF text[i] = "J" THEN "j" ELSE text[i]]

\* String.prototype.trim removes blanks and line terminators alike.
WhiteSpace == {" ", "\n"}

RECURSIVE trimStart(_)
trimStart(text) ==
  IF text # <<>> /\ Head(text) \in WhiteSpace THEN trimStart(Tail(text)) ELSE text

RECURSIVE trimEnd(_)
trimEnd(text) ==
  IF text # <<>> /\ text[Len(text)] \in WhiteSpace
    THEN trimEnd(SubSeq(text, 1, Len(text) - 1))
    ELSE text

trim(text) == trimEnd(trimStart(text))

startsWith(text, prefix) ==
  Len(text) >= Len(prefix) /\ SubSeq(text, 1, Len(prefix)) = prefix

\* config.journaling.prefixes: ['journal:', 'j:'], in this order.
prefixes == << <<"j", "ournal", ":">>, <<"j", ":">> >>

\* journalPrompts.js isJournalEntry: some prefix starts the lowered, trimmed text.
isJournalEntry(message) ==
  /\ message # <<>>
  /\ \E i \in DOMAIN prefixes : startsWith(toLowerCase(trim(message)), prefixes[i])

\* journalPrompts.js extractJournalContent: the trimmed text without the first
\* prefix of the list that starts it, trimmed again.
extractJournalContent(message) ==
  LET content == trim(message)
      hits == {i \in DOMAIN prefixes : startsWith(toLowerCase(content), prefixes[i])}
  IN IF message = <<>> \/ hits = {} THEN content
     ELSE LET first == CHOOSE i \in hits : \A k \in hits : i <= k
          IN trim(SubSeq(content, Len(prefixes[first]) + 1, Len(content)))

\* Inbound texts by what the code tests of them: handleCommands (kind),
\* isJournalEntry (kind), containsCrisisKeyword (keyword), extractName (name),
\* isCheckInResponse and parseCheckInPreference (checkIn).  In this order:
\* "rough day at work today", "I want to kill myself", "my name is Sam",
\* "yes please", "no thanks", " J: I feel grateful today", "journal:slept well ",
\* "help", "forget me", "stop", "resume".
Messages ==
  {[NoMessage EXCEPT !.kind = "chat"],
   [NoMessage EXCEPT !.kind = "chat", !.keyword = TRUE],
   [NoMessage EXCEPT !.kind = "chat", !.name = TRUE],
   [NoMessage EXCEPT !.kind = "chat", !.checkIn = "yes"],
   [NoMessage EXCEPT !.kind = "chat", !.checkIn = "no"],
   [NoMessage EXCEPT !.kind = "chat", !.text = <<" ", "J", ":", " ", "w">>],
   [NoMessage EXCEPT !.kind = "chat", !.text = <<"j", "ournal", ":", "w", " ">>],
   [NoMessage EXCEPT !.kind = "help"],
   [NoMessage EXCEPT !.kind = "forget"],
   [NoMessage EXCEPT !.kind = "stop"],
   [NoMessage EXCEPT !.kind = "resume"]}

\* The texts that change the schedule from handleCommands.
Commands == {m \in Messages : m.kind \in {"stop", "resume"}}

\* A text handed to sendResponse: the crisis resource text in front (or null),
\* the body, and the onboarding prompt appended (or none).
NoText == [crisis |-> "null", body |-> "none", prompt |-> "none"]

Text(body) == [NoText EXCEPT !.body = body]

NoCrisis == [isCrisis |-> FALSE, riskLevel |-> "low", crisisResponse |-> "null"]

\* What the external assessment can do for a handler, given the client.
HandlerLLMOutcomes ==
  IF configured THEN {o \in LLMOutcomes : o.kind # "unconfigured"}
                ELSE {o \in LLMOutcomes : o.kind = "unconfigured"}

\* crisisDetection.js scheduleFollowUp: Date.now() + hours * 60 * 60 * 1000.
followUpTime(t, hours) == t + (hours * SlotsPerDay) \div 24

\* redis.js addFollowUp: the schedule or { followUps: [] }, with the time pushed.
addFollowUp(sched, time) ==
  [sched EXCEPT !.exists = TRUE, !.followUps = Append(@, time)]

\* onboarding.js getNext9AM: 09:00 today if still ahead, else 09:00 tomorrow.
getNext9AM(t) ==
  LET next == Day(t) * SlotsPerDay + 1
  IN IF next <= t THEN next + SlotsPerDay ELSE next

\* onboarding.js getNext8PM: 20:00 today if still ahead, else 20:00 tomorrow.
getNext8PM(t) ==
  LET next == Day(t) * SlotsPerDay + 2
  IN IF next <= t THEN next + SlotsPerDay ELSE next

\* A store call left to do: updateUser of the stage, of the name or of the
\* journal count, or setupCheckIns.
Item(op, value) == [op |-> op, value |-> value]

\* onboarding.js processOnboarding: the prompt and the store calls, in order,
\* for the stage and the message.  advanceStage is updateUser.
processOnboarding(user, msg) ==
  LET stage == user.onboardingStage
      count == user.messageCount
      bySwitch ==
        CASE stage = INITIAL /\ count >= 2 /\ ~user.name ->
               [prompt |-> "prompt1", todo |-> <<Item("stage", ASK_NAME)>>]
          [] stage = ASK_NAME /\ msg.name ->
               [prompt |-> "name_ack",
                todo |-> <<Item("name", 0), Item("stage", ASK_REASON)>>]
          [] stage = ASK_REASON /\ count >= 5 ->
               [prompt |-> "prompt2", todo |-> <<Item("stage", ASK_CHECKIN)>>]
          [] stage = ASK_CHECKIN /\ count >= 10 ->
               [prompt |-> "prompt3", todo |-> <<Item("stage", COMPLETE)>>]
          [] OTHER -> [prompt |-> "none", todo |-> <<>>]
      byPreference ==
        IF stage = ASK_CHECKIN /\ msg.checkIn # "none"
          THEN IF msg.checkIn = "yes"
                 THEN [prompt |-> "checkin_yes",
                       todo |-> <<Item("setup", 0), Item("stage", COMPLETE)>>]
                 ELSE [prompt |-> "checkin_no", todo |-> <<Item("stage", COMPLETE)>>]
          ELSE [prompt |-> "none", todo |-> <<>>]
  IN [prompt |-> IF byPreference.prompt # "none" THEN byPreference.prompt
                                                 ELSE bySwitch.prompt,
      todo |-> bySwitch.todo \o byPreference.todo]

\* redis.js updateUser: { ...existing, ...updates }.  The updates of the stats
\* carry the stats of the `user` their caller read earlier.
Updated(ex, item, user) ==
  CASE item.op = "stage" -> [ex EXCEPT !.exists = TRUE, !.onboardingStage = item.value]
    [] item.op = "name" -> [ex EXCEPT !.exists = TRUE, !.name = TRUE]
    [] item.op = "journal" ->
         [ex EXCEPT !.exists = TRUE, !.messageCount = user.messageCount,
                    !.journalCount = user.journalCount + 1]
    [] item.op = "stats" ->
         [ex EXCEPT !.exists = TRUE, !.messageCount = user.messageCount + 1,
                    !.journalCount = user.journalCount]

\* Where handleMessage goes once it has the user: commands first, then the
\* journal check, then the welcome of a new user, else crisis detection.
Route(msg, user) ==
  CASE msg.kind \in {"help", "forget", "stop", "resume"} -> "command"
    [] isJournalEntry(msg.text) -> "journal"
    [] user.messageCount = 0 -> "welcome"
    [] OTHER -> "detect"

\* The position after a store call of a list: the next call, or the send.
AfterCall(items) ==
  IF items = <<>> THEN "send"
  ELSE IF Head(items).op = "setup" THEN "setup" ELSE "upd_get"

\* ------------------------------------------------------------------- Init
\* Schedules as setupCheckIns, the stop command and addFollowUp leave them.
InitSchedules ==
  { NoSchedule,
    [exists |-> TRUE, nextCheckIn |-> 1, nextJournalPrompt |-> 2, followUps |-> <<>>],
    [exists |-> TRUE, nextCheckIn |-> 4, nextJournalPrompt |-> 2, followUps |-> <<2, 5>>],
    [exists |-> TRUE, nextCheckIn |-> Null, nextJournalPrompt |-> Null, followUps |-> <<1>>] }

\* The scheduler before its first tick.
SchedStart ==
  /\ lock = NoLock
  /\ clock = 1
  /\ isLeader = [r \in Replicas |-> FALSE]
  /\ spc = [r \in Replicas |-> "idle"]
  /\ ticks = 0
  /\ now = [r \in Replicas |-> 0]
  /\ queue = [r \in Replicas |-> <<>>]
  /\ rd = [r \in Replicas |-> NoSchedule]
  /\ loc = [r \in Replicas |-> NoSchedule]
  /\ updated = [r \in Replicas |-> FALSE]
  /\ acq = [r \in Replicas |-> "none"]
  /\ checkInSent = [u \in Users |-> [d \in 1..MaxStamp |-> 0]]
  /\ followUpSent = [u \in Users |-> [d \in 1..MaxStamp |-> 0]]
  /\ tickFired = [r \in Replicas |-> {}]

\* No delivery has arrived at the webhook route.
IdemStart ==
  /\ marker = [e \in EventIds |-> FALSE]
  /\ dpc = [d \in Deliveries |-> "wait"]
  /\ dev = [d \in Deliveries |-> 1]
  /\ answer = [d \in Deliveries |-> "none"]
  /\ handled = [e \in EventIds |-> 0]
  /\ expired = [e \in EventIds |-> FALSE]

\* No call of detectCrisis is being looked at.
CrisisStart ==
  /\ cpc = "returned"
  /\ cKeyword = FALSE
  /\ cLLM = [kind |-> "unconfigured", level |-> "low", follow_up_hours |-> NoHours]
  /\ cStoreOK = TRUE
  /\ cResult = NoResult

\* No inbound text event has been received.
HandlerStart ==
  /\ events = 0
  /\ hpc = [h \in Handlers |-> "idle"]
  /\ hmsg = [h \in Handlers |-> NoMessage]
  /\ huser = [h \in Handlers |-> NoUser]
  /\ isNewUser = [h \in Handlers |-> FALSE]
  /\ crisisResult = [h \in Handlers |-> NoCrisis]
  /\ response = [h \in Handlers |-> NoText]
  /\ todo = [h \in Handlers |-> <<>>]
  /\ existing = [h \in Handlers |-> NoUser]
  /\ outbox = [h \in Handlers |-> <<>>]
  /\ generated = [h \in Handlers |-> FALSE]
  /\ onboarded = [h \in Handlers |-> FALSE]
  /\ bpc = [h \in Handlers |-> "none"]
  /\ bUser = [h \in Handlers |-> NoUser]
  /\ bExisting = [h \in Handlers |-> NoUser]
  /\ erased = FALSE
  /\ stopped = FALSE
  /\ journal = <<>>
  /\ pre = [h \in Handlers |-> [messageCount |-> 0, stage |-> 0, pushed |-> 0]]
  /\ failure = [h \in Handlers |-> "none"]
  /\ welcomes = 0
  /\ asked = "no"
  /\ history = <<>>
  /\ apc = [c \in Callers |-> "idle"]
  /\ alen = [c \in Callers |-> 0]
  /\ pushed = 0

\* No reply is being sent.
SendStart ==
  /\ outText = <<>>
  /\ outMax = 0
  /\ parts = <<>>
  /\ sendpc = "returned"
  /\ attempts = <<>>

\* No store operation is being looked at.
RetryStart ==
  /\ wop = "getUser"
  /\ wpc = "returned"
  /\ outerI = 0
  /\ innerI = 0
  /\ storeCalls = [get |-> 0, set |-> 0]
  /\ delays = <<>>

\* No addMessage and no addJournalEntry is being looked at.
AppendStart ==
  /\ opName = "addMessage"
  /\ oppc = "returned"
  /\ opI = 0
  /\ conv = <<>>
  /\ bucket = <<>>
  /\ held = <<>>
  /\ length = 0

\* No concurrent calls are being looked at.
CreateStart ==
  /\ gpc = [c \in Callers |-> "idle"]
  /\ gUser = [c \in Callers |-> NoUser]

StoreStart ==
  /\ AppendStart
  /\ CreateStart

UtilStart ==
  /\ SendStart
  /\ RetryStart
  /\ StoreStart

\* The handlers are idle and the identity is unknown.
HandlerIdle ==
  /\ HandlerStart
  /\ profile = NoUser
  /\ configured = TRUE

\* One identity, u1, has a schedule out of S; the other has none.
OnlyU1(S) == {[u \in Users |-> IF u = "u1" THEN sc ELSE NoSchedule] : sc \in S}

InitSched ==
  /\ SchedStart
  /\ schedule \in OnlyU1(InitSchedules)
  /\ IdemStart
  /\ UtilStart
  /\ CrisisStart
  /\ HandlerIdle

\* ------------------------------------------------------- scheduler actions
\* What a replica's callback holds between scans.
Idle(r) ==
  /\ now' = [now EXCEPT ![r] = 0]
  /\ queue' = [queue EXCEPT ![r] = <<>>]
  /\ rd' = [rd EXCEPT ![r] = NoSchedule]
  /\ loc' = [loc EXCEPT ![r] = NoSchedule]
  /\ updated' = [updated EXCEPT ![r] = FALSE]
  /\ tickFired' = [tickFired EXCEPT ![r] = {}]

\* proactiveMessaging.js acquireLeaderLock: this.isLeader = await
\* acquireLock(...); a store error is caught, false is returned and
\* this.isLeader keeps its value.  leader is this.isLeader after the call.
acquireLeaderLock(r, leader) ==
  /\ \/ LET res == acquireLock(lock, r) IN
          /\ lock' = res.lock
          /\ leader = res.result
          /\ acq' = [acq EXCEPT ![r] = IF res.result THEN "won" ELSE "lost"]
     \/ /\ leader = isLeader[r]
        /\ UNCHANGED <<lock, acq>>
  /\ isLeader' = [isLeader EXCEPT ![r] = leader]

\* startScheduler: the cron callback (and the start-up timeout) runs
\* acquireLeaderLock and then checkAndSendProactiveMessages up to its first
\* store call.  checkAndSendProactiveMessages, lines 63-71: not leader
\* returns, the leader takes const now = Date.now().
Cron(r) ==
  /\ spc[r] = "idle"
  /\ \E leader \in BOOLEAN :
       /\ acquireLeaderLock(r, leader)
       /\ IF leader
            THEN /\ spc' = [spc EXCEPT ![r] = "list"]
                 /\ now' = [now EXCEPT ![r] = clock]
            ELSE UNCHANGED <<spc, now>>
  /\ UNCHANGED <<schedule, clock, queue, rd, loc, updated, checkInSent, followUpSent,
                 tickFired>>
  /\ UNCHANGED <<idemVars, crisisVars, handlerVars, utilVars>>

\* One of the MaxTicks firings of the cron callbacks that are looked at.
Tick(r) ==
  /\ ticks < MaxTicks
  /\ ticks' = ticks + 1
  /\ Cron(r)

\* A firing of the cron callback, of which there is no last one.
CronTick(r) ==
  /\ Cron(r)
  /\ UNCHANGED ticks

\* Where the scan goes once the users in q are left to process.
AfterUser(q) == IF q = <<>> THEN "extend" ELSE "ps_get"

\* checkAndSendProactiveMessages, line 74: getAllScheduledUsers; a store error
\* leaves the try block (no scan, no extendLock).
GetAllScheduledUsers(r) ==
  /\ spc[r] = "list"
  /\ \/ \E q \in Perms(ScheduledUsers) :
          /\ queue' = [queue EXCEPT ![r] = q]
          /\ spc' = [spc EXCEPT ![r] = AfterUser(q)]
          /\ tickFired' = [tickFired EXCEPT ![r] =
                             {<<u, "listed">> : u \in ScheduledUsers}]
          /\ UNCHANGED <<now, rd, loc, updated>>
     \/ /\ spc' = [spc EXCEPT ![r] = "idle"]
        /\ Idle(r)
  /\ UNCHANGED <<lock, schedule, clock, isLeader, ticks, acq, checkInSent, followUpSent>>
  /\ UNCHANGED <<idemVars, crisisVars, handlerVars, utilVars>>

\* The local state of the scan once the current user is done with.
UserDone(r) ==
  /\ queue' = [queue EXCEPT ![r] = Tail(@)]
  /\ spc' = [spc EXCEPT ![r] = AfterUser(Tail(queue[r]))]
  /\ rd' = [rd EXCEPT ![r] = NoSchedule]
  /\ loc' = [loc EXCEPT ![r] = NoSchedule]
  /\ updated' = [updated EXCEPT ![r] = FALSE]

\* checkAndSendProactiveMessages, lines 78-83: the catch inside the loop logs
\* the failure of the current user and the loop goes on with the next one.
CaughtBreak(r) ==
  /\ queue' = [queue EXCEPT ![r] = <<>>]
  /\ spc' = [spc EXCEPT ![r] = "extend"]
  /\ rd' = [rd EXCEPT ![r] = NoSchedule]
  /\ loc' = [loc EXCEPT ![r] = NoSchedule]
  /\ updated' = [updated EXCEPT ![r] = FALSE]

Caught(r) ==
  UserDone(r)

\* processUserSchedule, lines 102-105: getSchedule; no schedule returns, a
\* store error is caught by the loop of checkAndSendProactiveMessages.
PSGet(r) ==
  /\ spc[r] = "ps_get"
  /\ LET u == Head(queue[r]) IN
       \/ /\ schedule[u].exists
          /\ rd' = [rd EXCEPT ![r] = schedule[u]]
          /\ loc' = [loc EXCEPT ![r] = schedule[u]]
          /\ updated' = [updated EXCEPT ![r] = FALSE]
          /\ spc' = [spc EXCEPT ![r] = "ps_checkin"]
          /\ tickFired' = [tickFired EXCEPT ![r] = @ \cup {<<u, "visited">>}]
          /\ UNCHANGED queue
       \/ /\ ~schedule[u].exists
          /\ tickFired' = [tickFired EXCEPT ![r] = @ \cup {<<u, "visited">>}]
          /\ UserDone(r)
       \/ /\ tickFired' = [tickFired EXCEPT ![r] =
                             @ \cup {<<u, "visited">>, <<u, "failed">>}]
          /\ Caught(r)
  /\ UNCHANGED <<lock, schedule, clock, isLeader, ticks, now, acq, checkInSent, followUpSent>>
  /\ UNCHANGED <<idemVars, crisisVars, handlerVars, utilVars>>

\* The due test of processUserSchedule: stamp && now >= stamp.
IsDue(stamp, n) == stamp # Null /\ n >= stamp

\* processUserSchedule, lines 107-112: the morning check-in.  sendProactiveMessage
\* swallows every failure, so the message reaches the gateway or it does not.
PSCheckIn(r) ==
  /\ spc[r] = "ps_checkin"
  /\ LET u == Head(queue[r]) IN
       IF IsDue(loc[r].nextCheckIn, now[r])
         THEN /\ \E sent \in BOOLEAN :
                   checkInSent' =
                     IF sent
                       THEN [checkInSent EXCEPT ![u][loc[r].nextCheckIn] = @ + 1]
                       ELSE checkInSent
              /\ loc' = [loc EXCEPT ![r].nextCheckIn = getNextCheckInTime(clock)]
              /\ updated' = [updated EXCEPT ![r] = TRUE]
              /\ tickFired' = [tickFired EXCEPT ![r] = @ \cup {<<u, "checkin">>}]
         ELSE UNCHANGED <<checkInSent, loc, updated, tickFired>>
  /\ spc' = [spc EXCEPT ![r] = "ps_journal"]
  /\ UNCHANGED <<lock, schedule, clock, isLeader, ticks, now, queue, rd, acq,
                 followUpSent>>
  /\ UNCHANGED <<idemVars, crisisVars, handlerVars, utilVars>>

\* The follow-ups processUserSchedule pushes to processed: now >= followUp.time.
DueFollowUps(fs, n) == {fs[i] : i \in {j \in DOMAIN fs : n >= fs[j]}}

\* The follow-ups processUserSchedule keeps: those it did not push to processed.
RemainingFollowUps(fs, n) == SelectSeq(fs, LAMBDA t : ~(n >= t))

\* processUserSchedule, lines 114-136: the evening journal prompt, then the due
\* follow-ups are sent and filtered out of schedule.followUps.  Each send is
\* sendProactiveMessage, which reaches the gateway or swallows its failure.
PSJournal(r) ==
  /\ spc[r] = "ps_journal"
  /\ LET u == Head(queue[r])
         fireJ == IsDue(loc[r].nextJournalPrompt, now[r])
         due == DueFollowUps(loc[r].followUps, now[r])
         rest == RemainingFollowUps(loc[r].followUps, now[r])
         fireF == Len(rest) < Len(loc[r].followUps)
     IN
       /\ loc' = [loc EXCEPT
                    ![r].nextJournalPrompt =
                       IF fireJ THEN getNextJournalPromptTime(clock) ELSE @,
                    ![r].followUps = rest]
       /\ updated' = [updated EXCEPT ![r] = @ \/ fireJ \/ fireF]
       /\ tickFired' = [tickFired EXCEPT ![r] =
                          IF fireJ THEN @ \cup {<<u, "journal">>} ELSE @]
       /\ \E sent \in SUBSET due :
            followUpSent' = [followUpSent EXCEPT ![u] =
                               [t \in 1..MaxStamp |-> IF t \in sent THEN @[t] + 1 ELSE @[t]]]
  /\ spc' = [spc EXCEPT ![r] = "ps_set"]
  /\ UNCHANGED <<lock, schedule, clock, isLeader, ticks, now, queue, rd, acq,
                 checkInSent>>
  /\ UNCHANGED <<idemVars, crisisVars, handlerVars, utilVars>>

\* processUserSchedule, lines 138-140: if (updated) setSchedule(phoneNumber, schedule);
\* a store error propagates to the loop's catch and the stored schedule stays.
PSSet(r) ==
  /\ spc[r] = "ps_set"
  /\ LET u == Head(queue[r]) IN
       \/ /\ updated[r]
          /\ schedule' = [schedule EXCEPT ![u] = [loc[r] EXCEPT !.exists = TRUE]]
          /\ UserDone(r)
          /\ UNCHANGED tickFired
       \/ /\ updated[r]
          /\ UNCHANGED schedule
          /\ tickFired' = [tickFired EXCEPT ![r] = @ \cup {<<u, "failed">>}]
          /\ Caught(r)
       \/ /\ ~updated[r]
          /\ UNCHANGED schedule
          /\ UserDone(r)
          /\ UNCHANGED tickFired
  /\ UNCHANGED <<lock, clock, isLeader, ticks, now, acq, checkInSent, followUpSent>>
  /\ UNCHANGED <<idemVars, crisisVars, handlerVars, utilVars>>

\* checkAndSendProactiveMessages, lines 87-95: checkInactiveUsers does nothing,
\* then extendLock; a store error is caught and logged.
ExtendLock(r) ==
  /\ spc[r] = "extend"
  /\ \/ lock' = extendLock(lock)
     \/ UNCHANGED lock
  /\ spc' = [spc EXCEPT ![r] = "idle"]
  /\ Idle(r)
  /\ UNCHANGED <<schedule, clock, isLeader, ticks, acq, checkInSent, followUpSent>>
  /\ UNCHANGED <<idemVars, crisisVars, handlerVars, utilVars>>

\* A mutant of the ageing: the record was set without EX and stays.
LockAgeNever ==
  /\ lock.holder # NoHolder
  /\ UNCHANGED vars

\* Redis ages the lock record (EX): at the end of its lease the record is gone.
LockAge ==
  /\ lock.holder # NoHolder
  /\ IF lock.ttl > 1
       THEN /\ lock' = [lock EXCEPT !.ttl = @ - 1]
            /\ UNCHANGED acq
       ELSE /\ lock' = NoLock
            /\ acq' = [r \in Replicas |-> "none"]
  /\ UNCHANGED <<schedule, clock, isLeader, spc, ticks, now, queue, rd, loc, updated,
                 checkInSent, followUpSent, tickFired>>
  /\ UNCHANGED <<idemVars, crisisVars, handlerVars, utilVars>>

\* Time passes into the next slot of the day.
AdvanceClock ==
  /\ clock < MaxClock
  /\ clock' = clock + 1
  /\ UNCHANGED <<lock, schedule, isLeader, spc, ticks, now, queue, rd, loc, updated,
                 acq, checkInSent, followUpSent, tickFired>>
  /\ UNCHANGED <<idemVars, crisisVars, handlerVars, utilVars>>

NextSched ==
  \/ \E r \in Replicas : Tick(r)
  \/ \E r \in Replicas : GetAllScheduledUsers(r)
  \/ \E r \in Replicas : PSGet(r)
  \/ \E r \in Replicas : PSCheckIn(r)
  \/ \E r \in Replicas : PSJournal(r)
  \/ \E r \in Replicas : PSSet(r)
  \/ \E r \in Replicas : ExtendLock(r)
  \/ LockAge
  \/ AdvanceClock

SpecSched == InitSched /\ [][NextSched]_vars

\* One replica alone: the scheduler of a single-process deployment.
NextSolo ==
  \/ Tick(1)
  \/ GetAllScheduledUsers(1)
  \/ PSGet(1)
  \/ PSCheckIn(1)
  \/ PSJournal(1)
  \/ PSSet(1)
  \/ ExtendLock(1)
  \/ LockAge
  \/ AdvanceClock

SpecSolo == InitSched /\ [][NextSolo]_vars

\* One replica alone and two identities with a schedule.
InitScan ==
  /\ SchedStart
  /\ schedule \in [Users -> {sc \in InitSchedules : sc.nextCheckIn = 1}]
  /\ IdemStart
  /\ UtilStart
  /\ CrisisStart
  /\ HandlerIdle

SpecScan == InitScan /\ [][NextSolo]_vars

\* The leadership attempts alone: every replica's cron callback calls
\* acquireLeaderLock, and the scans they lead to are left out.
AcquireLeaderLock(r) ==
  /\ spc[r] = "idle"
  /\ ticks < MaxTicks
  /\ ticks' = ticks + 1
  /\ \E leader \in BOOLEAN : acquireLeaderLock(r, leader)
  /\ UNCHANGED <<schedule, clock, spc, now, queue, rd, loc, updated, checkInSent, followUpSent,
                 tickFired>>
  /\ UNCHANGED <<idemVars, crisisVars, handlerVars, utilVars>>

NextLock ==
  \/ \E r \in Replicas : AcquireLeaderLock(r)
  \/ LockAge

SpecLock == InitSched /\ [][NextLock]_vars

\* shutdown: the cron job is stopped and releaseLeaderLock runs.  A replica
\* that is not the leader is done; the leader's releaseLock begins with GET
\* key, and a value other than its process id ends it (this.isLeader = false).
\* A store error lands in the catch and this.isLeader keeps its value.
ReleaseGet(r) ==
  /\ spc[r] = "idle"
  /\ IF isLeader[r]
       THEN \/ /\ lock.holder = r
               /\ spc' = [spc EXCEPT ![r] = "rel_del"]
               /\ UNCHANGED isLeader
            \/ /\ lock.holder # r
               /\ spc' = [spc EXCEPT ![r] = "stopped"]
               /\ isLeader' = [isLeader EXCEPT ![r] = FALSE]
            \/ /\ spc' = [spc EXCEPT ![r] = "stopped"]
               /\ UNCHANGED isLeader
       ELSE /\ spc' = [spc EXCEPT ![r] = "stopped"]
            /\ UNCHANGED isLeader
  /\ UNCHANGED <<lock, schedule, clock, ticks, now, queue, rd, loc, updated,
                 acq, checkInSent, followUpSent, tickFired>>
  /\ UNCHANGED <<idemVars, crisisVars, handlerVars, utilVars>>

\* releaseLock after currentValue === expectedValue: DEL key removes the record
\* that is there now; then this.isLeader = false.  A store error lands in the
\* catch of releaseLeaderLock.
ReleaseDel(r) ==
  /\ spc[r] = "rel_del"
  /\ \/ /\ lock' = NoLock
        /\ acq' = [q \in Replicas |-> "none"]
        /\ isLeader' = [isLeader EXCEPT ![r] = FALSE]
     \/ UNCHANGED <<lock, acq, isLeader>>
  /\ spc' = [spc EXCEPT ![r] = "stopped"]
  /\ UNCHANGED <<schedule, clock, ticks, now, queue, rd, loc, updated,
                 checkInSent, followUpSent, tickFired>>
  /\ UNCHANGED <<idemVars, crisisVars, handlerVars, utilVars>>

\* The leadership attempts and the graceful shutdown of the replicas.
NextRelease ==
  \/ \E r \in Replicas : AcquireLeaderLock(r)
  \/ \E r \in Replicas : ReleaseGet(r)
  \/ \E r \in Replicas : ReleaseDel(r)
  \/ LockAge

InitRelease ==
  /\ SchedStart
  /\ schedule = [u \in Users |-> NoSchedule]
  /\ IdemStart
  /\ UtilStart
  /\ CrisisStart
  /\ HandlerIdle

SpecRelease == InitRelease /\ [][NextRelease]_vars

\* The process of the replica that holds the lock record crashes or stalls:
\* its callbacks fire no more and nothing of it reaches the store.  One replica
\* at most does.
Crash(r) ==
  /\ lock.holder = r
  /\ \A q \in Replicas : spc[q] # "stalled"
  /\ spc' = [spc EXCEPT ![r] = "stalled"]
  /\ UNCHANGED <<lock, schedule, clock, isLeader, ticks, now, queue, rd, loc, updated,
                 acq, checkInSent, followUpSent, tickFired>>
  /\ UNCHANGED <<idemVars, crisisVars, handlerVars, utilVars>>

\* Failover: the replicas' cron callbacks fire for ever, the leader scans (no
\* identity has a schedule) and renews the lease, Redis ages the record, and
\* the holder may crash.
InitFailover ==
  /\ SchedStart
  /\ schedule = [u \in Users |-> NoSchedule]
  /\ IdemStart
  /\ UtilStart
  /\ CrisisStart
  /\ HandlerIdle

NextFailover ==
  \/ \E r \in Replicas : CronTick(r)
  \/ \E r \in Replicas : GetAllScheduledUsers(r)
  \/ \E r \in Replicas : ExtendLock(r)
  \/ \E r \in Replicas : Crash(r)
  \/ LockAge

\* A firing of the cron callback whose SET reaches the store: this.isLeader
\* is the reply of acquireLock.
CronTickReplied(r) ==
  /\ CronTick(r)
  /\ LET res == acquireLock(lock, r) IN
       /\ lock' = res.lock
       /\ isLeader'[r] = res.result
       /\ acq'[r] = IF res.result THEN "won" ELSE "lost"

\* The fairness of the failover: Redis expires the record at the end of its
\* lease (EX), a scan that began goes on to its end, and the store does not
\* fail for ever on the SET of a live replica whose cron callback keeps firing.
FairFailover ==
  /\ WF_vars(LockAge)
  /\ \A r \in Replicas :
       /\ WF_vars(GetAllScheduledUsers(r))
       /\ WF_vars(ExtendLock(r))
       /\ SF_vars(CronTickReplied(r))

SpecFailover == InitFailover /\ [][NextFailover]_vars /\ FairFailover

\* ------------------------------------------------ webhook route actions
\* routes/webhook.js POST /message: a delivery with a messageId arrives.
Arrive(d) ==
  /\ dpc[d] = "wait"
  /\ \E e \in EventIds : dev' = [dev EXCEPT ![d] = e]
  /\ dpc' = [dpc EXCEPT ![d] = "check"]
  /\ UNCHANGED <<marker, answer, handled, expired>>
  /\ UNCHANGED <<schedVars, crisisVars, handlerVars, utilVars>>

\* redis.js checkIdempotency: GET idempotency:<id>, exists !== null.
checkIdempotency(e) == marker[e]

\* webhook.js lines 55-60: isDuplicate = await checkIdempotency(id); a duplicate
\* is answered 200 duplicate.  A store error leaves the route (asyncHandler).
CheckIdempotency(d) ==
  /\ dpc[d] = "check"
  /\ \/ IF checkIdempotency(dev[d])
          THEN /\ dpc' = [dpc EXCEPT ![d] = "done"]
               /\ answer' = [answer EXCEPT ![d] = "duplicate"]
          ELSE /\ dpc' = [dpc EXCEPT ![d] = "set"]
               /\ UNCHANGED answer
     \/ /\ dpc' = [dpc EXCEPT ![d] = "done"]
        /\ answer' = [answer EXCEPT ![d] = "error"]
  /\ UNCHANGED <<marker, dev, handled, expired>>
  /\ UNCHANGED <<schedVars, crisisVars, handlerVars, utilVars>>

\* webhook.js lines 61-65: await setIdempotency(id) (SET idempotency:<id> 1 EX 300),
\* then 200 received.  A store error leaves the route.
SetIdempotency(d) ==
  /\ dpc[d] = "set"
  /\ \/ /\ marker' = [marker EXCEPT ![dev[d]] = TRUE]
        /\ dpc' = [dpc EXCEPT ![d] = "handle"]
        /\ answer' = [answer EXCEPT ![d] = "received"]
     \/ /\ dpc' = [dpc EXCEPT ![d] = "done"]
        /\ answer' = [answer EXCEPT ![d] = "error"]
        /\ UNCHANGED marker
  /\ UNCHANGED <<dev, handled, expired>>
  /\ UNCHANGED <<schedVars, crisisVars, handlerVars, utilVars>>

\* webhook.js lines 67-106: the handler of the event type runs.
HandleEvent(d) ==
  /\ dpc[d] = "handle"
  /\ handled' = [handled EXCEPT ![dev[d]] = @ + 1]
  /\ dpc' = [dpc EXCEPT ![d] = "done"]
  /\ UNCHANGED <<marker, dev, answer, expired>>
  /\ UNCHANGED <<schedVars, crisisVars, handlerVars, utilVars>>

\* Redis drops the marker at the end of its TTL.
MarkerExpire(e) ==
  /\ marker[e]
  /\ marker' = [marker EXCEPT ![e] = FALSE]
  /\ expired' = [expired EXCEPT ![e] = TRUE]
  /\ UNCHANGED <<dpc, dev, answer, handled>>
  /\ UNCHANGED <<schedVars, crisisVars, handlerVars, utilVars>>

InitIdem ==
  /\ SchedStart
  /\ schedule = [u \in Users |-> NoSchedule]
  /\ IdemStart
  /\ UtilStart
  /\ CrisisStart
  /\ HandlerIdle

NextIdem ==
  \/ \E d \in Deliveries : Arrive(d)
  \/ \E d \in Deliveries : CheckIdempotency(d)
  \/ \E d \in Deliveries : SetIdempotency(d)
  \/ \E d \in Deliveries : HandleEvent(d)
  \/ \E e \in EventIds : MarkerExpire(e)

SpecIdem == InitIdem /\ [][NextIdem]_vars

\* ---------------------------------------------------- detectCrisis, alone
InitCrisis ==
  /\ SchedStart
  /\ schedule = [u \in Users |-> NoSchedule]
  /\ IdemStart
  /\ UtilStart
  /\ cpc = "call"
  /\ cKeyword \in BOOLEAN
  /\ cLLM \in LLMOutcomes
  /\ cStoreOK \in BOOLEAN
  /\ cResult = NoResult
  /\ HandlerIdle

\* One call of detectCrisis on the drawn message and external outcome.
DetectCrisis ==
  /\ cpc = "call"
  /\ cResult' = detectCrisis(cKeyword, cLLM, cStoreOK)
  /\ cpc' = "returned"
  /\ UNCHANGED <<cKeyword, cLLM, cStoreOK>>
  /\ UNCHANGED <<schedVars, idemVars, handlerVars, utilVars>>

NextCrisis == DetectCrisis

SpecCrisis == InitCrisis /\ [][NextCrisis]_vars

\* ------------------------------------------------- handleMessage actions
\* proactiveMessaging.js addMessage, one call run to its end: RPUSH, LLEN, and
\* LTRIM to the last maxMessages when the list grew past them.
addMessage(list, m) ==
  LET grown == Append(list, m)
  IN IF Len(grown) > maxMessages THEN SubSeq(grown, Len(grown) - maxMessages + 1, Len(grown))
                                 ELSE grown

\* What no step of a handler or of its background task writes.
outside == <<schedLocals, idemVars, crisisVars, utilVars, configured, apc, alen>>
elsewhere == <<outside, erased, stopped, journal, history, pushed, pre, failure, welcomes,
               asked>>

\* messageHandler.js handleMessage, lines 15-26: an event with a phone number
\* and a content, one of the texts M, reaches a handler that is free.
ReceiveFrom(h, M) ==
  /\ hpc[h] \in {"idle", "done"}
  /\ events < MaxEvents
  /\ events' = events + 1
  /\ \E m \in M : hmsg' = [hmsg EXCEPT ![h] = m]
  /\ hpc' = [hpc EXCEPT ![h] = "get_user"]
  /\ huser' = [huser EXCEPT ![h] = NoUser]
  /\ isNewUser' = [isNewUser EXCEPT ![h] = FALSE]
  /\ crisisResult' = [crisisResult EXCEPT ![h] = NoCrisis]
  /\ response' = [response EXCEPT ![h] = NoText]
  /\ outbox' = [outbox EXCEPT ![h] = <<>>]
  /\ generated' = [generated EXCEPT ![h] = FALSE]
  /\ onboarded' = [onboarded EXCEPT ![h] = FALSE]
  /\ erased' = FALSE
  /\ pre' = [pre EXCEPT ![h] =
        [messageCount |-> IF profile.exists THEN profile.messageCount ELSE 0,
         stage |-> IF profile.exists THEN profile.onboardingStage ELSE 0,
         pushed |-> pushed]]
  /\ failure' = [failure EXCEPT ![h] = "none"]
  /\ asked' = CASE asked = "asked" -> "next"
                [] asked = "next" -> "later"
                [] OTHER -> asked
  /\ UNCHANGED <<profile, schedule, todo, existing, bpc, bUser, bExisting, stopped,
                 journal, history, pushed, welcomes>>
  /\ UNCHANGED outside

Receive(h) == ReceiveFrom(h, Messages)

ReceiveCommand(h) == ReceiveFrom(h, Commands)

\* redis.js getOrCreateUser, the getUser; then handleMessage line 30.
GetUser(h) ==
  /\ hpc[h] = "get_user"
  /\ IF profile.exists
       THEN /\ isNewUser' = [isNewUser EXCEPT ![h] = profile.messageCount = 0]
            /\ hpc' = [hpc EXCEPT ![h] = Route(hmsg[h], profile)]
       ELSE /\ hpc' = [hpc EXCEPT ![h] = "create_user"]
            /\ UNCHANGED isNewUser
  /\ UNCHANGED <<huser, profile, schedule, events, hmsg, crisisResult, response, todo, existing,
                 outbox, generated, onboarded, bpc, bUser, bExisting>>
  /\ UNCHANGED elsewhere

\* redis.js getOrCreateUser, the createUser: setUser of the new record.
CreateUser(h) ==
  /\ hpc[h] = "create_user"
  /\ profile' = newUser
  /\ UNCHANGED huser
  /\ isNewUser' = [isNewUser EXCEPT ![h] = TRUE]
  /\ hpc' = [hpc EXCEPT ![h] = Route(hmsg[h], newUser)]
  /\ UNCHANGED <<schedule, events, hmsg, crisisResult, response, todo, existing,
                 outbox, generated, onboarded, bpc, bUser, bExisting>>
  /\ UNCHANGED elsewhere

\* messageHandler.js handleCommands: "forget me" deletes the records of the
\* identity; "stop" is a setSchedule of the cleared schedule, whose store error
\* is thrown to the catch of handleMessage; "resume" is setupCheckIns, whose
\* store error is caught there; "help" touches nothing.  The answer of the
\* command is the response.
HandleCommands(h) ==
  /\ hpc[h] = "command"
  /\ CASE hmsg[h].kind = "forget" ->
            /\ profile' = NoUser
            /\ schedule' = [schedule EXCEPT !["u1"] = NoSchedule]
            /\ journal' = <<>>
            /\ history' = <<>>
            /\ erased' = TRUE
            /\ welcomes' = 0
            /\ asked' = "no"
            /\ hpc' = [hpc EXCEPT ![h] = "send"]
            /\ UNCHANGED <<stopped, failure>>
       [] hmsg[h].kind = "stop" ->
            /\ \/ /\ schedule' = [schedule EXCEPT !["u1"] =
                        [exists |-> TRUE, nextCheckIn |-> Null,
                         nextJournalPrompt |-> Null, followUps |-> <<>>]]
                  /\ stopped' = TRUE
                  /\ hpc' = [hpc EXCEPT ![h] = "send"]
                  /\ UNCHANGED failure
               \/ /\ hpc' = [hpc EXCEPT ![h] = "fallback"]
                  /\ failure' = [failure EXCEPT ![h] = "command"]
                  /\ UNCHANGED <<schedule, stopped>>
            /\ UNCHANGED <<profile, erased, journal, history, welcomes, asked>>
       [] hmsg[h].kind = "resume" ->
            /\ \/ /\ schedule' = [schedule EXCEPT !["u1"] =
                        [exists |-> TRUE, nextCheckIn |-> getNext9AM(clock),
                         nextJournalPrompt |-> getNext8PM(clock), followUps |-> <<>>]]
                  /\ UNCHANGED failure
               \/ /\ failure' = [failure EXCEPT ![h] = "command"]
                  /\ UNCHANGED schedule
            /\ stopped' = FALSE
            /\ hpc' = [hpc EXCEPT ![h] = "send"]
            /\ UNCHANGED <<profile, erased, journal, history, welcomes, asked>>
       [] OTHER ->
            /\ hpc' = [hpc EXCEPT ![h] = "send"]
            /\ UNCHANGED <<profile, schedule, erased, stopped, journal, history, failure,
                           welcomes, asked>>
  /\ response' = [response EXCEPT ![h] = Text("command")]
  /\ UNCHANGED <<events, hmsg, huser, isNewUser, crisisResult, todo, existing,
                 outbox, generated, onboarded, bpc, bUser, bExisting>>
  /\ UNCHANGED <<outside, pushed, pre>>

\* journaling.js saveJournalEntry: addJournalEntry of the extracted content,
\* then getUser and, for a stored user, updateUser of the stats read.  A store
\* error of addJournalEntry lands in the catch: nothing is stored and the
\* acknowledgment says so.
SaveJournalEntry(h) ==
  /\ hpc[h] = "journal"
  /\ \/ /\ journal' = Append(journal, extractJournalContent(hmsg[h].text))
        /\ response' = [response EXCEPT ![h] = Text("journal_ack")]
        /\ IF profile.exists
             THEN /\ huser' = [huser EXCEPT ![h] = profile]
                  /\ todo' = [todo EXCEPT ![h] = <<Item("journal", 0)>>]
                  /\ hpc' = [hpc EXCEPT ![h] = "upd_get"]
             ELSE /\ hpc' = [hpc EXCEPT ![h] = "send"]
                  /\ UNCHANGED <<huser, todo>>
        /\ UNCHANGED failure
     \/ /\ response' = [response EXCEPT ![h] = Text("journal_trouble")]
        /\ hpc' = [hpc EXCEPT ![h] = "send"]
        /\ failure' = [failure EXCEPT ![h] = "journal"]
        /\ UNCHANGED <<journal, huser, todo>>
  /\ UNCHANGED <<profile, schedule, events, hmsg, isNewUser, crisisResult, existing,
                 outbox, generated, onboarded, bpc, bUser, bExisting>>
  /\ UNCHANGED <<outside, erased, stopped, history, pushed, pre, welcomes, asked>>

\* loopMessage.js sendMessage as sendResponse sees it: it returns (sent, or
\* success false for a missing key, 400, 401, 403), or it throws once its
\* retries are used up (429, any other status).  Both count as handed over.
Handed(h, text) == [outbox EXCEPT ![h] = Append(@, text)]

\* handleMessage lines 47-52: the welcome of a new user.
Welcome(h) ==
  /\ hpc[h] = "welcome"
  /\ outbox' = Handed(h, Text("welcome"))
  /\ \/ /\ hpc' = [hpc EXCEPT ![h] = "gen"]
        /\ welcomes' = welcomes + 1
     \/ /\ hpc' = [hpc EXCEPT ![h] = "fallback"]
        /\ UNCHANGED welcomes
  /\ UNCHANGED <<profile, schedule, events, hmsg, huser, isNewUser, crisisResult,
                 response, todo, existing, generated, onboarded, bpc, bUser, bExisting>>
  /\ UNCHANGED <<outside, erased, stopped, journal, history, pushed, pre, failure, asked>>

\* handleMessage lines 54-62: getConversationHistory, detectCrisis (which logs
\* and adds the follow-up), and the branch on critical.
AssessRisk(h) ==
  /\ hpc[h] = "detect"
  /\ \E llm \in HandlerLLMOutcomes : \E storeOK \in BOOLEAN :
       LET r == detectCrisis(hmsg[h].keyword, llm, storeOK)
           critical == r.isCrisis /\ r.riskLevel = "critical"
       IN /\ crisisResult' = [crisisResult EXCEPT ![h] =
                [isCrisis |-> r.isCrisis, riskLevel |-> r.riskLevel,
                 crisisResponse |-> r.crisisResponse]]
          /\ schedule' = IF r.followUpAdded
                           THEN [schedule EXCEPT !["u1"] =
                                   addFollowUp(@, followUpTime(clock, r.followUpHours))]
                           ELSE schedule
          /\ response' = [response EXCEPT ![h] =
                IF critical THEN [NoText EXCEPT !.crisis = r.crisisResponse] ELSE NoText]
          /\ hpc' = [hpc EXCEPT ![h] = IF critical THEN "send" ELSE "gen"]
  /\ UNCHANGED <<profile, events, hmsg, huser, isNewUser, todo, existing,
                 outbox, generated, onboarded, bpc, bUser, bExisting>>
  /\ UNCHANGED elsewhere

\* conversationEngine.js generateResponse.  Without a client it returns the
\* fallback text at once.  With one it calls getOrCreateUser, reads the
\* history and calls the LLM: an error of status 429 gives the throttle text,
\* any other failure the fallback text; a success
\* stores both messages and calls updateUserStats, which reads the user and
\* leaves the stats update to a background task (the handler has one such
\* task at a time: the reply of the LLM comes after the task of the event
\* before has ended).  Then handleMessage lines 66-70 put the crisis text in
\* front.
GenerateResponse(h) ==
  /\ hpc[h] = "gen"
  /\ generated' = [generated EXCEPT ![h] = TRUE]
  /\ LET stored == IF profile.exists THEN profile ELSE newUser
         front == IF crisisResult[h].isCrisis THEN crisisResult[h].crisisResponse
                                              ELSE "null"
     IN \/ /\ ~configured
           /\ response' = [response EXCEPT ![h] =
                 [NoText EXCEPT !.crisis = front, !.body = "fallback_reply"]]
           /\ UNCHANGED <<profile, bpc, bUser, history, pushed, failure>>
        \/ /\ configured
           /\ profile' = stored
           /\ \/ /\ response' = [response EXCEPT ![h] =
                       [NoText EXCEPT !.crisis = front, !.body = "throttle_reply"]]
                 /\ failure' = [failure EXCEPT ![h] = "rate_limit"]
              \/ /\ response' = [response EXCEPT ![h] =
                       [NoText EXCEPT !.crisis = front, !.body = "fallback_reply"]]
                 /\ failure' = [failure EXCEPT ![h] = "llm"]
           /\ UNCHANGED <<bpc, bUser, history, pushed>>
        \/ /\ configured
           /\ bpc[h] = "none"
           /\ profile' = stored
           /\ response' = [response EXCEPT ![h] =
                 [NoText EXCEPT !.crisis = front, !.body = "reply"]]
           /\ history' = addMessage(addMessage(history, pushed + 1), pushed + 2)
           /\ pushed' = pushed + 2
           /\ UNCHANGED failure
           /\ bUser' = [bUser EXCEPT ![h] = stored]
           /\ bpc' = [bpc EXCEPT ![h] = "upd_get"]
  /\ hpc' = [hpc EXCEPT ![h] = IF isNewUser[h] THEN "send" ELSE "refresh"]
  /\ UNCHANGED <<schedule, events, hmsg, huser, isNewUser, crisisResult, todo, existing,
                 outbox, onboarded, bExisting>>
  /\ UNCHANGED <<outside, erased, stopped, journal, pre, welcomes, asked>>

\* handleMessage lines 72-79: getUser again, then processOnboarding up to its
\* first store call; its prompt is appended.  On a user that is gone the
\* read of user.onboardingStage throws.
Refresh(h) ==
  /\ hpc[h] = "refresh"
  /\ onboarded' = [onboarded EXCEPT ![h] = TRUE]
  /\ IF profile.exists
       THEN LET plan == processOnboarding(profile, hmsg[h])
            IN /\ todo' = [todo EXCEPT ![h] = plan.todo]
               /\ response' = [response EXCEPT ![h].prompt = plan.prompt]
               /\ hpc' = [hpc EXCEPT ![h] = AfterCall(plan.todo)]
       ELSE /\ hpc' = [hpc EXCEPT ![h] = "fallback"]
            /\ UNCHANGED <<todo, response>>
  /\ UNCHANGED <<huser, profile, schedule, events, hmsg, isNewUser, crisisResult, existing,
                 outbox, generated, bpc, bUser, bExisting>>
  /\ UNCHANGED elsewhere

\* redis.js updateUser, the getUser.
UpdateUserGet(h) ==
  /\ hpc[h] = "upd_get"
  /\ existing' = [existing EXCEPT ![h] = profile]
  /\ hpc' = [hpc EXCEPT ![h] = "upd_set"]
  /\ UNCHANGED <<profile, schedule, events, hmsg, huser, isNewUser, crisisResult,
                 response, todo, outbox, generated, onboarded, bpc, bUser, bExisting>>
  /\ UNCHANGED elsewhere

\* redis.js updateUser, the setUser of the merged record.
UpdateUserSet(h) ==
  /\ hpc[h] = "upd_set"
  /\ profile' = Updated(existing[h], Head(todo[h]), huser[h])
  /\ existing' = [existing EXCEPT ![h] = NoUser]
  /\ huser' = [huser EXCEPT ![h] = NoUser]
  /\ todo' = [todo EXCEPT ![h] = Tail(@)]
  /\ hpc' = [hpc EXCEPT ![h] = AfterCall(Tail(todo[h]))]
  /\ UNCHANGED <<schedule, events, hmsg, isNewUser, crisisResult, response,
                 outbox, generated, onboarded, bpc, bUser, bExisting>>
  /\ UNCHANGED elsewhere

\* onboarding.js setupCheckIns: setSchedule of a fresh schedule; a store error
\* is caught and logged.
SetupCheckIns(h) ==
  /\ hpc[h] = "setup"
  /\ \/ /\ schedule' = [schedule EXCEPT !["u1"] =
              [exists |-> TRUE, nextCheckIn |-> getNext9AM(clock),
               nextJournalPrompt |-> getNext8PM(clock), followUps |-> <<>>]]
        /\ UNCHANGED failure
     \/ /\ failure' = [failure EXCEPT ![h] = "checkins"]
        /\ UNCHANGED schedule
  /\ stopped' = FALSE
  /\ todo' = [todo EXCEPT ![h] = Tail(@)]
  /\ hpc' = [hpc EXCEPT ![h] = AfterCall(Tail(todo[h]))]
  /\ UNCHANGED <<profile, events, hmsg, huser, isNewUser, crisisResult, response,
                 existing, outbox, generated, onboarded, bpc, bUser, bExisting>>
  /\ UNCHANGED <<outside, erased, journal, history, pushed, pre, welcomes, asked>>

\* messageHandler.js sendResponse of the response; a throw of the gateway
\* lands in the catch of handleMessage.
SendResponse(h) ==
  /\ hpc[h] = "send"
  /\ outbox' = Handed(h, response[h])
  /\ \/ /\ hpc' = [hpc EXCEPT ![h] = "done"]
        /\ asked' = IF response[h].prompt = "prompt3" THEN "asked" ELSE asked
     \/ /\ hpc' = [hpc EXCEPT ![h] = "fallback"]
        /\ UNCHANGED asked
  /\ UNCHANGED <<profile, schedule, events, hmsg, huser, isNewUser, crisisResult,
                 response, todo, existing, generated, onboarded, bpc, bUser, bExisting>>
  /\ UNCHANGED <<outside, erased, stopped, journal, history, pushed, pre, failure, welcomes>>

\* handleMessage lines 89-98, the catch: the fallback text is sent.
Fallback(h) ==
  /\ hpc[h] = "fallback"
  /\ outbox' = Handed(h, Text("fallback"))
  /\ hpc' = [hpc EXCEPT ![h] = "done"]
  /\ todo' = [todo EXCEPT ![h] = <<>>]
  /\ UNCHANGED <<profile, schedule, events, hmsg, huser, isNewUser, crisisResult,
                 response, existing, generated, onboarded, bpc, bUser, bExisting>>
  /\ UNCHANGED elsewhere

\* conversationEngine.js updateUserStats, the background task after
\* detectEmotionalState: updateUser begins with getUser.
BackgroundGet(h) ==
  /\ bpc[h] = "upd_get"
  /\ bExisting' = [bExisting EXCEPT ![h] = profile]
  /\ bpc' = [bpc EXCEPT ![h] = "upd_set"]
  /\ UNCHANGED <<profile, schedule, events, hpc, hmsg, huser, isNewUser, crisisResult,
                 response, todo, existing, outbox, generated, onboarded, bUser>>
  /\ UNCHANGED elsewhere

\* The background updateUser writes { ...existing, emotionalState, stats } with
\* the stats of the user read in updateUserStats, messageCount + 1.
BackgroundSet(h) ==
  /\ bpc[h] = "upd_set"
  /\ profile' = Updated(bExisting[h], Item("stats", 0), bUser[h])
  /\ bpc' = [bpc EXCEPT ![h] = "none"]
  /\ bUser' = [bUser EXCEPT ![h] = NoUser]
  /\ bExisting' = [bExisting EXCEPT ![h] = NoUser]
  /\ UNCHANGED <<schedule, events, hpc, hmsg, huser, isNewUser, crisisResult,
                 response, todo, existing, outbox, generated, onboarded>>
  /\ UNCHANGED elsewhere

InitHandler ==
  /\ SchedStart
  /\ schedule = [u \in Users |-> NoSchedule]
  /\ IdemStart
  /\ UtilStart
  /\ CrisisStart
  /\ HandlerStart
  /\ profile \in InitProfiles
  /\ configured \in BOOLEAN

NextHandler ==
  \/ \E h \in Handlers : Receive(h)
  \/ \E h \in Handlers : GetUser(h)
  \/ \E h \in Handlers : CreateUser(h)
  \/ \E h \in Handlers : HandleCommands(h)
  \/ \E h \in Handlers : SaveJournalEntry(h)
  \/ \E h \in Handlers : Welcome(h)
  \/ \E h \in Handlers : AssessRisk(h)
  \/ \E h \in Handlers : GenerateResponse(h)
  \/ \E h \in Handlers : Refresh(h)
  \/ \E h \in Handlers : UpdateUserGet(h)
  \/ \E h \in Handlers : UpdateUserSet(h)
  \/ \E h \in Handlers : SetupCheckIns(h)
  \/ \E h \in Handlers : SendResponse(h)
  \/ \E h \in Handlers : Fallback(h)
  \/ \E h \in Handlers : BackgroundGet(h)
  \/ \E h \in Handlers : BackgroundSet(h)

SpecHandler == InitHandler /\ [][NextHandler]_vars

\* The scheduler of one replica while the stop and resume commands of an
\* identity that has its check-ins on are handled.
InitStop ==
  /\ SchedStart
  /\ schedule \in OnlyU1({sc \in InitSchedules : sc.nextCheckIn # Null})
  /\ IdemStart
  /\ UtilStart
  /\ CrisisStart
  /\ HandlerStart
  /\ profile \in {NoUser, [newUser EXCEPT !.onboardingStage = COMPLETE,
                                          !.messageCount = 10, !.name = TRUE]}
  /\ configured = TRUE

NextStop ==
  \/ NextSolo
  \/ \E h \in Handlers : ReceiveCommand(h)
  \/ \E h \in Handlers : GetUser(h)
  \/ \E h \in Handlers : CreateUser(h)
  \/ \E h \in Handlers : HandleCommands(h)
  \/ \E h \in Handlers : SendResponse(h)
  \/ \E h \in Handlers : Fallback(h)

SpecStop == InitStop /\ [][NextStop]_vars

\* The texts handleCommands answers with deleteUserData.
Erasures == {m \in Messages : m.kind = "forget"}

ReceiveErasure(h) == ReceiveFrom(h, Erasures)

\* The scheduler of one replica while "forget me" of an identity that has a
\* schedule is handled.
NextErase ==
  \/ NextSolo
  \/ \E h \in Handlers : ReceiveErasure(h)
  \/ \E h \in Handlers : GetUser(h)
  \/ \E h \in Handlers : CreateUser(h)
  \/ \E h \in Handlers : HandleCommands(h)
  \/ \E h \in Handlers : SendResponse(h)
  \/ \E h \in Handlers : Fallback(h)

SpecErase == InitStop /\ [][NextErase]_vars

\* ------------------------------------------------------ addMessage actions
\* Redis LTRIM key start -1: the elements from index start (0-based) on.
lTrim(list, start) == SubSeq(list, start + 1, Len(list))

\* redis.js addMessage, line 479: RPUSH of the message with its timestamp.
RPush(c) ==
  /\ apc[c] = "idle"
  /\ pushed < MaxAppends
  /\ pushed' = pushed + 1
  /\ history' = Append(history, pushed + 1)
  /\ apc' = [apc EXCEPT ![c] = "len"]
  /\ UNCHANGED alen
  /\ UNCHANGED <<schedVars, idemVars, crisisVars, handlerOwn, utilVars>>

\* addMessage, lines 482-484: length = LLEN key, and length > maxMessages
\* decides whether LTRIM follows.
LLen(c) ==
  /\ apc[c] = "len"
  /\ alen' = [alen EXCEPT ![c] = Len(history)]
  /\ apc' = [apc EXCEPT ![c] = IF Len(history) > maxMessages THEN "trim" ELSE "idle"]
  /\ UNCHANGED <<history, pushed>>
  /\ UNCHANGED <<schedVars, idemVars, crisisVars, handlerOwn, utilVars>>

\* addMessage, line 485: LTRIM key (length - maxMessages) -1.
LTrim(c) ==
  /\ apc[c] = "trim"
  /\ history' = lTrim(history, alen[c] - maxMessages)
  /\ apc' = [apc EXCEPT ![c] = "idle"]
  /\ UNCHANGED <<alen, pushed>>
  /\ UNCHANGED <<schedVars, idemVars, crisisVars, handlerOwn, utilVars>>

InitHistory ==
  /\ SchedStart
  /\ schedule = [u \in Users |-> NoSchedule]
  /\ IdemStart
  /\ UtilStart
  /\ CrisisStart
  /\ HandlerIdle

NextHistory ==
  \/ \E c \in Callers : RPush(c)
  \/ \E c \in Callers : LLen(c)
  \/ \E c \in Callers : LTrim(c)

SpecHistory == InitHistory /\ [][NextHistory]_vars

\* ------------------------------------------------- sendResponse actions
\* A reply is a sequence of characters: "w" (a letter), ".", " " and "\n".
Chars == {"w", ".", " ", "\n"}

\* The replies sendResponse goes on with: it returns at once for an empty one.
Texts == UNION {[1..n -> Chars] : n \in 1..MaxText}

\* maxLength, 1600 in sendResponse, at the scale of the replies.
Limits == 1..MaxLimit

\* String.prototype.substring(start, end) for 0 <= start <= end.
substring(text, start, end) ==
  SubSeq(text, start + 1, IF end > Len(text) THEN Len(text) ELSE end)

\* String.prototype.lastIndexOf(searchString, position): the last index, not
\* after position, at which searchString begins, or -1.
lastIndexOf(text, searchString, position) ==
  LET last == IF position > Len(text) - Len(searchString)
                THEN Len(text) - Len(searchString) ELSE position
      hits == {i \in 0..last :
                 SubSeq(text, i + 1, i + Len(searchString)) = searchString}
  IN IF hits = {} THEN -1 ELSE CHOOSE i \in hits : \A k \in hits : k <= i

\* breakPoint === -1 || breakPoint < maxLength / 2
tooEarly(breakPoint, maxLength) == breakPoint = -1 \/ 2 * breakPoint < maxLength

\* splitMessage, lines 224-236: a paragraph break, else a line break, else a
\* sentence end, else a blank, else the limit itself.
findBreakPoint(remaining, maxLength) ==
  LET paragraph == lastIndexOf(remaining, <<"\n", "\n">>, maxLength)
      line == IF tooEarly(paragraph, maxLength)
                THEN lastIndexOf(remaining, <<"\n">>, maxLength) ELSE paragraph
      sentence == IF tooEarly(line, maxLength)
                    THEN lastIndexOf(remaining, <<".", " ">>, maxLength) ELSE line
      word == IF tooEarly(sentence, maxLength)
                THEN lastIndexOf(remaining, <<" ">>, maxLength) ELSE sentence
  IN IF word = -1 THEN maxLength ELSE word

\* A mutant of segmentAt: the character at the break point is left out.
segmentShort(remaining, breakPoint) == trim(substring(remaining, 0, breakPoint))

\* splitMessage, line 238: the segment pushed for a break point.
segmentAt(remaining, breakPoint) == trim(substring(remaining, 0, breakPoint + 1))

\* splitMessage, line 239: what is left to split.
remainingAfter(remaining, breakPoint) ==
  trim(substring(remaining, breakPoint + 1, Len(remaining)))

\* splitMessage, lines 217-240: the loop.
RECURSIVE splitLoop(_, _)
splitLoop(remaining, maxLength) ==
  IF Len(remaining) = 0 THEN <<>>
  ELSE IF Len(remaining) <= maxLength THEN <<remaining>>
  ELSE LET breakPoint == findBreakPoint(remaining, maxLength)
       IN <<segmentAt(remaining, breakPoint)>>
            \o splitLoop(remainingAfter(remaining, breakPoint), maxLength)

\* messageHandler.js splitMessage.
splitMessage(text, maxLength) ==
  IF Len(text) <= maxLength THEN <<text>> ELSE splitLoop(text, maxLength)

\* What loopMessage.sendMessage does with one segment: it returns success
\* true, it returns success false with a reason (no API key, 400, 401, 403),
\* or it throws (429, or any other error on the last retry).
SendOutcomes == {"sent", "failed", "thrown"}

\* sendResponse, lines 184-185.
SplitMessage ==
  /\ sendpc = "split"
  /\ parts' = splitMessage(outText, outMax)
  /\ sendpc' = "loop"
  /\ UNCHANGED <<outText, outMax, attempts>>
  /\ UNCHANGED <<schedVars, idemVars, crisisVars, handlerVars, retryVars, storeVars>>

\* sendResponse, lines 187-201: one turn of the loop.  The await of
\* sendMessage is in no try block, so a throw ends sendResponse.
SendMessage ==
  /\ sendpc = "loop"
  /\ Len(attempts) < Len(parts)
  /\ \E result \in SendOutcomes :
       /\ attempts' = Append(attempts, [msg |-> Len(attempts) + 1, result |-> result])
       /\ sendpc' = IF result = "thrown" THEN "thrown" ELSE "loop"
  /\ UNCHANGED <<outText, outMax, parts>>
  /\ UNCHANGED <<schedVars, idemVars, crisisVars, handlerVars, retryVars, storeVars>>

\* sendResponse, line 203: the loop is through.
SendReturn ==
  /\ sendpc = "loop"
  /\ Len(attempts) = Len(parts)
  /\ sendpc' = "returned"
  /\ UNCHANGED <<outText, outMax, parts, attempts>>
  /\ UNCHANGED <<schedVars, idemVars, crisisVars, handlerVars, retryVars, storeVars>>

\* sendResponse is called with a reply that is not empty.
InitSend ==
  /\ SchedStart
  /\ schedule = [u \in Users |-> NoSchedule]
  /\ IdemStart
  /\ CrisisStart
  /\ HandlerIdle
  /\ outText \in Texts
  /\ outMax \in Limits
  /\ parts = <<>>
  /\ sendpc = "split"
  /\ attempts = <<>>
  /\ RetryStart
  /\ StoreStart

NextSend ==
  \/ SplitMessage
  \/ SendMessage
  \/ SendReturn

SpecSend == InitSend /\ [][NextSend]_vars

\* ------------------------------------------------------ withRetry actions
\* Math.pow(2, i), the seconds withRetry sleeps after failed attempt i.
RECURSIVE pow2(_)
pow2(i) == IF i = 0 THEN 1 ELSE 2 * pow2(i - 1)

\* The store call the operation makes at wpc.
StoreCalled == [storeCalls EXCEPT ![wpc] = @ + 1]

\* getUser, setUser: client.get or client.set answers.  Inside updateUser
\* the operation goes on with setUser, or returns `updated`.
CallReplies ==
  /\ wpc \in {"get", "set"}
  /\ storeCalls' = StoreCalled
  /\ wpc' = IF wop = "updateUser" /\ wpc = "get" THEN "set" ELSE "returned"
  /\ innerI' = 0
  /\ UNCHANGED <<wop, outerI, delays>>
  /\ UNCHANGED <<schedVars, idemVars, crisisVars, handlerVars, sendVars, storeVars>>

\* withRetry of getUser or setUser: the call throws and attempts are left; it
\* sleeps 2^i seconds and calls again.
CallFailsRetry ==
  /\ wpc \in {"get", "set"}
  /\ innerI # maxRetries - 1
  /\ storeCalls' = StoreCalled
  /\ delays' = Append(delays, pow2(innerI))
  /\ innerI' = innerI + 1
  /\ UNCHANGED <<wop, wpc, outerI>>
  /\ UNCHANGED <<schedVars, idemVars, crisisVars, handlerVars, sendVars, storeVars>>

\* withRetry of getUser or setUser: the call throws on the last attempt and
\* the error is thrown on.  Called alone the operation has ended.  Inside
\* updateUser it is caught by the withRetry of updateUser, which throws it on
\* its own last attempt and else sleeps and runs the operation again,
\* getUser first.
CallFailsLast ==
  /\ wpc \in {"get", "set"}
  /\ innerI = maxRetries - 1
  /\ storeCalls' = StoreCalled
  /\ innerI' = 0
  /\ IF wop = "updateUser" /\ outerI # maxRetries - 1
       THEN /\ delays' = Append(delays, pow2(outerI))
            /\ outerI' = outerI + 1
            /\ wpc' = "get"
       ELSE /\ wpc' = "thrown"
            /\ UNCHANGED <<outerI, delays>>
  /\ UNCHANGED wop
  /\ UNCHANGED <<schedVars, idemVars, crisisVars, handlerVars, sendVars, storeVars>>

\* One of the operations is called.
InitRetry ==
  /\ SchedStart
  /\ schedule = [u \in Users |-> NoSchedule]
  /\ IdemStart
  /\ CrisisStart
  /\ HandlerIdle
  /\ SendStart
  /\ StoreStart
  /\ wop \in {"getUser", "setUser", "updateUser"}
  /\ wpc = IF wop = "setUser" THEN "set" ELSE "get"
  /\ outerI = 0
  /\ innerI = 0
  /\ storeCalls = [get |-> 0, set |-> 0]
  /\ delays = <<>>

NextRetry ==
  \/ CallReplies
  \/ CallFailsRetry
  \/ CallFailsLast

SpecRetry == InitRetry /\ [][NextRetry]_vars

\* ------------------------------- addMessage, addJournalEntry under withRetry
\* A list of n entries written by earlier calls.
RECURSIVE Olds(_)
Olds(n) == IF n = 0 THEN <<>> ELSE Append(Olds(n - 1), "old")

\* The first store call of the operation withRetry runs.
FirstCall == IF opName = "addMessage" THEN "rPush" ELSE "get"

\* withRetry, the catch: the error is thrown on after the last attempt; else
\* it sleeps and runs the whole operation again.
OperationThrows ==
  /\ IF opI = maxRetries - 1
       THEN /\ oppc' = "thrown"
            /\ UNCHANGED opI
       ELSE /\ oppc' = FirstCall
            /\ opI' = opI + 1
  /\ UNCHANGED <<opName, conv, bucket, held, length>>

\* addMessage: client.rPush(key, message).
AppendRPush ==
  /\ oppc = "rPush"
  /\ \/ /\ conv' = Append(conv, "new")
        /\ oppc' = "lLen"
        /\ UNCHANGED <<opName, opI, bucket, held, length>>
     \/ OperationThrows
  /\ UNCHANGED <<schedVars, idemVars, crisisVars, handlerVars, sendVars, retryVars, createVars>>

\* addMessage: length = client.lLen(key); without a trim it returns.
AppendLLen ==
  /\ oppc = "lLen"
  /\ \/ /\ length' = Len(conv)
        /\ oppc' = IF Len(conv) > maxMessages THEN "lTrim" ELSE "returned"
        /\ UNCHANGED <<opName, opI, conv, bucket, held>>
     \/ OperationThrows
  /\ UNCHANGED <<schedVars, idemVars, crisisVars, handlerVars, sendVars, retryVars, createVars>>

\* addMessage: client.lTrim(key, length - maxMessages, -1).
AppendLTrim ==
  /\ oppc = "lTrim"
  /\ \/ /\ conv' = lTrim(conv, length - maxMessages)
        /\ oppc' = "returned"
        /\ UNCHANGED <<opName, opI, bucket, held, length>>
     \/ OperationThrows
  /\ UNCHANGED <<schedVars, idemVars, crisisVars, handlerVars, sendVars, retryVars, createVars>>

\* addJournalEntry: existing = client.get(key); journalData.entries.push(..).
JournalGet ==
  /\ oppc = "get"
  /\ \/ /\ held' = Append(bucket, "new")
        /\ oppc' = "set"
        /\ UNCHANGED <<opName, opI, conv, bucket, length>>
     \/ OperationThrows
  /\ UNCHANGED <<schedVars, idemVars, crisisVars, handlerVars, sendVars, retryVars, createVars>>

\* addJournalEntry: client.set(key, JSON.stringify(journalData)).
JournalSet ==
  /\ oppc = "set"
  /\ \/ /\ bucket' = held
        /\ oppc' = "expire"
        /\ UNCHANGED <<opName, opI, conv, held, length>>
     \/ OperationThrows
  /\ UNCHANGED <<schedVars, idemVars, crisisVars, handlerVars, sendVars, retryVars, createVars>>

\* addJournalEntry: client.expire(key, one year).
JournalExpire ==
  /\ oppc = "expire"
  /\ \/ /\ oppc' = "returned"
        /\ UNCHANGED <<opName, opI, conv, bucket, held, length>>
     \/ OperationThrows
  /\ UNCHANGED <<schedVars, idemVars, crisisVars, handlerVars, sendVars, retryVars, createVars>>

\* One of the two methods is called; the list holds at most maxMessages
\* entries, as every addMessage leaves it.
InitAppend ==
  /\ SchedStart
  /\ schedule = [u \in Users |-> NoSchedule]
  /\ IdemStart
  /\ CrisisStart
  /\ HandlerIdle
  /\ SendStart
  /\ RetryStart
  /\ opName \in {"addMessage", "addJournalEntry"}
  /\ oppc = FirstCall
  /\ opI = 0
  /\ conv \in {Olds(n) : n \in 0..maxMessages}
  /\ bucket \in {Olds(n) : n \in 0..MaxStored}
  /\ held = <<>>
  /\ length = 0
  /\ CreateStart

NextAppend ==
  \/ AppendRPush
  \/ AppendLLen
  \/ AppendLTrim
  \/ JournalGet
  \/ JournalSet
  \/ JournalExpire

SpecAppend == InitAppend /\ [][NextAppend]_vars

\* ---------------------------------- getOrCreateUser under concurrent events
\* What the calls leave alone but the stored profile.
besidesProfile ==
  <<schedVars, idemVars, crisisVars, sendVars, retryVars, appendVars,
    configured, events, hpc, hmsg, huser, isNewUser, crisisResult, response, todo,
    existing, outbox, generated, onboarded, bpc, bUser, bExisting, erased, stopped,
    journal, pre, failure, welcomes, asked, history, apc, alen, pushed>>

\* webhook: an inbound event of the identity starts a handleMessage; nothing
\* makes it wait for the calls that are running.
EventArrives(c) ==
  /\ gpc[c] = "idle"
  /\ gpc' = [gpc EXCEPT ![c] = "get"]
  /\ UNCHANGED <<gUser, profile, besidesProfile>>

\* redis.js getOrCreateUser: user = getUser(phoneNumber); if (!user) createUser.
GetOrCreateGet(c) ==
  /\ gpc[c] = "get"
  /\ gpc' = [gpc EXCEPT ![c] = IF profile.exists THEN "reply" ELSE "create"]
  /\ UNCHANGED <<gUser, profile, besidesProfile>>

\* redis.js createUser: setUser(phoneNumber, newUser), a plain SET.
GetOrCreateCreate(c) ==
  /\ gpc[c] = "create"
  /\ profile' = newUser
  /\ gpc' = [gpc EXCEPT ![c] = "reply"]
  /\ UNCHANGED <<gUser, besidesProfile>>

\* conversationEngine.js generateResponse: the LLM replies and updateUserStats
\* reads the user, or it fails and the stats are left alone.
StatsGet(c) ==
  /\ gpc[c] = "reply"
  /\ \/ /\ profile.exists
        /\ gUser' = [gUser EXCEPT ![c] = profile]
        /\ gpc' = [gpc EXCEPT ![c] = "stats"]
     \/ /\ gpc' = [gpc EXCEPT ![c] = "done"]
        /\ UNCHANGED gUser
  /\ UNCHANGED <<profile, besidesProfile>>

\* conversationEngine.js updateUserStats: updateUser with messageCount of the
\* user read before, plus one, merged into the stored record.
StatsSet(c) ==
  /\ gpc[c] = "stats"
  /\ profile' = [profile EXCEPT !.exists = TRUE,
                                !.messageCount = gUser[c].messageCount + 1]
  /\ gpc' = [gpc EXCEPT ![c] = "done"]
  /\ UNCHANGED <<gUser, besidesProfile>>

\* The identity is unknown or known, and no event is being handled.
InitCreate ==
  /\ SchedStart
  /\ schedule = [u \in Users |-> NoSchedule]
  /\ IdemStart
  /\ CrisisStart
  /\ HandlerStart
  /\ configured = TRUE
  /\ profile \in InitProfiles
  /\ UtilStart

NextCreate ==
  \/ \E c \in Callers : EventArrives(c)
  \/ \E c \in Callers : GetOrCreateGet(c)
  \/ \E c \in Callers : GetOrCreateCreate(c)
  \/ \E c \in Callers : StatsGet(c)
  \/ \E c \in Callers : StatsSet(c)

SpecCreate == InitCreate /\ [][NextCreate]_vars

\* ------------------------------------------------------------------ claims
\* The replicas inside the scan of checkAndSendProactiveMessages: past the
\* leader check, not yet through extendLock.
Scanning == {r \in Replicas : spc[r] # "idle"}

\* C1: at every instant at most one replica is executing the proactive scan.
\* The code checks only its local isLeader flag, so a lease that runs out
\* during a scan lets a second replica acquire the lock and scan as well.
C1_AtMostOneScanner == Cardinality(Scanning) <= 1

Won == {r \in Replicas : acq[r] = "won"}

\* C2: acquireLock is mutually exclusive: of the attempts made on one lock
\* record at most one is answered true, and the replica answered true is the
\* holder; no attempt is answered true while the record exists.
C2_AcquireLockExclusive ==
  /\ Cardinality(Won) <= 1
  /\ \A r \in Won : lock.holder = r

\* Two replicas tried for the same lock record: one won, the other was refused.
C2_Witness ==
  \E r1, r2 \in Replicas : r1 # r2 /\ acq[r1] = "won" /\ acq[r2] = "lost"

\* C9: for a fixed identity and a fixed due value of nextCheckIn at most one
\* morning check-in is dispatched, also over ticks whose schedule write-back
\* fails.  Checked with a single replica: the message is sent before the
\* schedule is written, and a failed setSchedule leaves the slot due.
C9_CheckInOncePerDue ==
  \A u \in Users : \A d \in 1..MaxStamp : checkInSent[u][d] <= 1

\* C10: when processUserSchedule has fired a check-in (a journal prompt) and
\* writes the schedule back, the stored nextCheckIn (nextJournalPrompt) is
\* strictly greater than the value that was due and than the tick's now; and a
\* scan fires at most one check-in and one journal prompt per identity.
C10_RolloverAdvances ==
  [][\A r \in Replicas :
       /\ (spc[r] = "ps_set" /\ spc'[r] # "ps_set" /\ schedule' # schedule) =>
            LET u == Head(queue[r]) IN
              /\ <<u, "checkin">> \in tickFired[r] =>
                   /\ schedule'[u].nextCheckIn > rd[r].nextCheckIn
                   /\ schedule'[u].nextCheckIn > now[r]
              /\ <<u, "journal">> \in tickFired[r] =>
                   /\ schedule'[u].nextJournalPrompt > rd[r].nextJournalPrompt
                   /\ schedule'[u].nextJournalPrompt > now[r]
       /\ (spc[r] = "ps_checkin" /\ spc'[r] = "ps_journal"
             /\ IsDue(loc[r].nextCheckIn, now[r])) =>
            <<Head(queue[r]), "checkin">> \notin tickFired[r]
       /\ (spc[r] = "ps_journal" /\ spc'[r] = "ps_set"
             /\ IsDue(loc[r].nextJournalPrompt, now[r])) =>
            <<Head(queue[r]), "journal">> \notin tickFired[r]
    ]_vars

\* A check-in was dispatched for due value d and the stored nextCheckIn has
\* moved past d: the schedule was written back after the firing.
C10_Witness ==
  \E u \in Users : \E d \in 1..MaxStamp :
    /\ checkInSent[u][d] > 0
    /\ schedule[u].exists
    /\ schedule[u].nextCheckIn > d

\* C3: of the deliveries of one eventId within the marker's TTL the event
\* handler runs for at most one.  The route reads the marker and sets it in two
\* store calls, so two deliveries can both read "absent".
C3_ProcessedOnce ==
  \A e \in EventIds : ~expired[e] => handled[e] <= 1

\* The rank of a level in low < medium < high < critical.
Rank(level) ==
  CASE level = "low" -> 0 [] level = "medium" -> 1 [] level = "high" -> 2
    [] level = "critical" -> 3

ExternalFailed == cLLM.kind \in {"unconfigured", "throws", "unparseable"}

\* C5: when the external layer throws, times out, is unconfigured or answers
\* something unparseable, detectCrisis returns the keyword layer's result:
\* high, isCrisis and the high response on a match, low and no crisis otherwise.
C5_DegradesToKeywordLayer ==
  (cpc = "returned" /\ ExternalFailed) =>
    IF cKeyword
      THEN /\ cResult.riskLevel = "high"
           /\ cResult.isCrisis
           /\ cResult.crisisResponse = "crisis_high"
      ELSE /\ cResult.riskLevel = "low"
           /\ ~cResult.isCrisis
           /\ cResult.crisisResponse = "null"

\* detectCrisis has returned for a matching message whose assessment threw.
C5_Witness ==
  /\ cpc = "returned"
  /\ cKeyword
  /\ cLLM.kind = "throws"
  /\ cResult.isCrisis

\* C6: for an external level among the four, the returned riskLevel is the
\* maximum of the floor (high on a match, else low) and the external level.
C6_MergedLevelIsMax ==
  (cpc = "returned" /\ cLLM.kind = "assessment" /\ cLLM.level \in Levels) =>
    LET floor == IF cKeyword THEN 2 ELSE 0
        ext == Rank(cLLM.level)
    IN /\ cResult.riskLevel \in Levels
       /\ Rank(cResult.riskLevel) = IF ext > floor THEN ext ELSE floor

\* A keyword match met an external level below the floor and kept the floor.
C6_Witness ==
  /\ cpc = "returned"
  /\ cKeyword
  /\ cLLM.kind = "assessment"
  /\ cLLM.level = "low"
  /\ cResult.riskLevel = "high"

\* An event of a handler is over: handleMessage has returned.
Over(h) == hpc[h] = "done"

\* C4: an inbound text that is neither a command nor a journal entry and holds
\* a crisis phrase gets, for every state of the sender's profile, a reply that
\* contains the high or critical crisis resource response.  A profile whose
\* messageCount is 0 takes the welcome branch, which never calls detectCrisis.
\* Events that ended in the catch of handleMessage are left aside.
C4_CrisisPhraseGetsResources ==
  \A h \in Handlers :
    (/\ Over(h)
     /\ hmsg[h].kind = "chat"
     /\ hmsg[h].keyword
     /\ \A i \in DOMAIN outbox[h] : outbox[h][i].body # "fallback") =>
      \E i \in DOMAIN outbox[h] :
        outbox[h][i].crisis \in {"crisis_high", "crisis_critical"}

\* C7: when the risk assessment of an event yields critical, generateResponse
\* and processOnboarding are not called for it and every text handed to the
\* gateway for it is the critical crisis response.  A throw of the gateway on
\* that send makes the catch of handleMessage send the fallback text as well.
C7_CriticalOnlyCrisisResponse ==
  \A h \in Handlers :
    crisisResult[h].riskLevel = "critical" =>
      /\ ~generated[h]
      /\ ~onboarded[h]
      /\ \A i \in DOMAIN outbox[h] :
           outbox[h][i] = [NoText EXCEPT !.crisis = "crisis_critical"]

\* C8: the stored onboardingStage of the identity never decreases from one
\* state to the next while the profile exists.  updateUser reads and writes in
\* two store calls, so the background stats update writes back the stage it
\* read before a handler advanced it.
C8_StageNeverDecreases ==
  [][(profile.exists /\ profile'.exists) =>
       profile'.onboardingStage >= profile.onboardingStage]_vars

\* C11: over all ticks and replicas each follow-up is dispatched at most once.
\* processUserSchedule sends the due follow-ups first and removes them only in
\* the write-back at its end; when that setSchedule fails the follow-up is
\* still stored and the next scan sends it again.
C11_FollowUpOneShot ==
  \A u \in Users : \A t \in 1..MaxStamp : followUpSent[u][t] <= 1

\* C12: once "forget me" has been handled and until the next inbound event of
\* the identity arrives, no profile and no schedule of the identity is stored.
\* The background updateUser of an earlier event reads the profile before the
\* erasure and writes its merged copy after it.
C12_ErasedStaysErased ==
  erased => (~profile.exists /\ ~schedule["u1"].exists)

\* C13: once "stop" has been handled and until a resume or an opt-in, the
\* schedule of the identity has no check-in time, no journal-prompt time and no
\* follow-up.  A scan that read the schedule before the command writes its copy
\* back after it (processUserSchedule line 139).
C13_StoppedStaysStopped ==
  stopped => /\ schedule["u1"].nextCheckIn = Null
             /\ schedule["u1"].nextJournalPrompt = Null
             /\ schedule["u1"].followUps = <<>>

InLoop(r) == spc[r] \in {"ps_get", "ps_checkin", "ps_journal", "ps_set"}

\* C14: a scan leaves its loop over the enumerated identities only toward the
\* renewal of the lease (extendLock), and only when processUserSchedule has
\* been called for every identity the enumeration returned, whatever store or
\* gateway failure the processing of one of them met.
C14_FailureDoesNotAbortScan ==
  [][\A r \in Replicas :
       (InLoop(r) /\ ~InLoop(r)') =>
         /\ spc'[r] = "extend"
         /\ \A u \in Users : <<u, "listed">> \in tickFired'[r] =>
                               <<u, "visited">> \in tickFired'[r]]_vars

\* The first identity of a scan of two has failed and the second one is being
\* processed.
C14_Witness ==
  /\ spc[1] = "ps_checkin"
  /\ Len(queue[1]) = 1
  /\ \E u \in Users \ {Head(queue[1])} : <<u, "failed">> \in tickFired[1]

\* C15: failover.  When the replica that holds the lock record has crashed or
\* stalled, the record expires and, the cron callbacks of a live replica
\* firing fairly, a different replica acquires the lock and is the leader.
C15_Failover ==
  \A r \in Replicas :
    (lock.holder = r /\ spc[r] = "stalled") ~>
      (\E q \in Replicas \ {r} : lock.holder = q /\ acq[q] = "won" /\ isLeader[q])

\* The holder has stalled and another replica holds the lock it won.
C15_Witness ==
  \E r, q \in Replicas :
    /\ r # q
    /\ spc[r] = "stalled"
    /\ lock.holder = q
    /\ acq[q] = "won"
    /\ isLeader[q]

\* C16: the DEL of releaseLock removes a lock record only when the replica
\* that shuts down is the holder of the record at the moment of the DEL.
\* The GET and the DEL are two store calls: between them the record can expire
\* and another replica's SET NX can create a new one.
C16_ReleaseOnlyOwnLock ==
  [][\A r \in Replicas :
       (spc[r] = "rel_del" /\ lock' # lock) => lock.holder = r]_vars

\* C17: a delivery whose idempotency claim failed on the store (the route was
\* left with the error) has had its event handled all the same: the event is
\* not dropped.
C17_FailedClaimStillHandled ==
  \A d \in Deliveries :
    (dpc[d] = "done" /\ answer[d] = "error") => handled[dev[d]] >= 1

\* C18: when the handling of a text classified as a journal entry has ended
\* with the acknowledgment of a saved entry, the bucket of the day ends with
\* the content without its prefix, journalCount counts the entries of the
\* bucket (one more per entry saved), and no risk assessment, no onboarding
\* step and no LLM reply generation ran for the event.
C18_JournalEntryEffect ==
  \A h \in Handlers :
    (/\ hpc[h] = "done"
     /\ isJournalEntry(hmsg[h].text)
     /\ outbox[h] # <<>>
     /\ outbox[h][Len(outbox[h])].body = "journal_ack") =>
      /\ journal # <<>>
      /\ journal[Len(journal)] = <<"w">>
      /\ profile.journalCount = Len(journal)
      /\ crisisResult[h] = NoCrisis
      /\ ~generated[h]
      /\ ~onboarded[h]

\* C19: every change of the stored onboardingStage of a profile is a step to
\* the immediate successor in INITIAL, ASK_NAME, ASK_REASON, ASK_CHECKIN,
\* COMPLETE: no stage is skipped, none is gone back to, and COMPLETE is left by
\* no step (outside erasure).
C19_StageStepsToSuccessor ==
  [][(/\ profile.exists
      /\ profile'.exists
      /\ profile'.onboardingStage # profile.onboardingStage) =>
       profile'.onboardingStage = profile.onboardingStage + 1]_vars

\* The most recent k of the n messages appended, in insertion order.
MostRecent(n, k) == [i \in 1..k |-> n - k + i]

Min(a, b) == IF a <= b THEN a ELSE b

\* C20: when every addMessage call that began has completed, the stored
\* history is the most recent min(n, maxMessages) of the n messages appended,
\* in insertion order.  LLEN and LTRIM are two store calls: a caller trims by
\* the length it read, also after another caller has trimmed.
C20_HistoryIsSlidingWindow ==
  (\A c \in Callers : apc[c] = "idle") =>
    history = MostRecent(pushed, Min(pushed, maxMessages))

\* C21: stats.messageCount of the stored profile never decreases from one
\* state to the next while the profile exists.  saveJournalEntry and the
\* background task of updateUserStats each write the whole stats object of a
\* profile they read earlier.
C21_MessageCountNeverDecreases ==
  [][(profile.exists /\ profile'.exists) =>
       profile'.messageCount >= profile.messageCount]_vars

\* C22: when the handling of an event for which generateResponse was called
\* has ended and no background task is left, the history holds as its last
\* two entries the inbound message and then the reply, both appended since the
\* event arrived, and messageCount is one more than when the event arrived,
\* for a reply of the LLM and for a local fallback alike.
C22_NormalReplyIsRecorded ==
  \A h \in Handlers :
    (hpc[h] = "done" /\ bpc[h] = "none" /\ generated[h] /\ profile.exists) =>
      /\ pushed = pre[h].pushed + 2
      /\ Len(history) >= 2
      /\ history[Len(history) - 1] = pre[h].pushed + 1
      /\ history[Len(history)] = pre[h].pushed + 2
      /\ profile.messageCount = pre[h].messageCount + 1

\* C23: no segment splitMessage returns is longer than the maximum length,
\* for every text, every maximum length and every kind of break point.
C23_SegmentsWithinMaxLength ==
  sendpc # "split" => \A i \in DOMAIN parts : Len(parts[i]) <= outMax

\* The text is the segments in their order with white space only before,
\* between and after them.
RECURSIVE Rebuilds(_, _)
Rebuilds(text, segments) ==
  IF segments = <<>> THEN trim(text) = <<>>
  ELSE LET rest == trimStart(text)
           segment == trimStart(Head(segments))
       IN /\ startsWith(rest, segment)
          /\ Rebuilds(SubSeq(rest, Len(segment) + 1, Len(rest)), Tail(segments))

\* C24: the segments of splitMessage, concatenated in order, are the text but
\* for white space trimmed where it was broken: no other character is lost,
\* doubled or moved.
C24_SegmentsRebuildText ==
  sendpc # "split" => Rebuilds(outText, parts)

RECURSIVE TotalLen(_)
TotalLen(segments) ==
  IF segments = <<>> THEN 0 ELSE Len(Head(segments)) + TotalLen(Tail(segments))

\* A text was split in three segments, white space was trimmed at a break, and
\* a sentence end and a hard cutoff were break points too.
C24_Witness ==
  /\ sendpc # "split"
  /\ Len(parts) >= 3
  /\ TotalLen(parts) < Len(outText)
  /\ \E i \in DOMAIN parts : parts[i] # <<>> /\ parts[i][Len(parts[i])] = "."

\* C25: sendResponse hands the segments to the gateway in their order, and
\* when it has ended every segment was attempted, whatever the outcome of the
\* segments before it: success false returned, or an error thrown.
C25_LaterSegmentsStillAttempted ==
  sendpc \in {"returned", "thrown"} =>
    /\ Len(attempts) = Len(parts)
    /\ \A i \in DOMAIN attempts : attempts[i].msg = i

\* C26: an operation of RedisService makes at most maxRetries attempts of a
\* store call, and has ended with the error thrown when all of them failed.
\* updateUser runs getUser and setUser, each with its own withRetry, inside a
\* withRetry of its own.
C26_AtMostMaxRetriesAttempts ==
  /\ storeCalls.get <= maxRetries
  /\ storeCalls.set <= maxRetries

\* The texts that tell the user something went wrong: the throttle notice and
\* the fallback reply of generateResponse, the acknowledgment of a journal
\* entry that was not saved, the fallback of handleMessage.
Told(h, body) == \E i \in DOMAIN outbox[h] : outbox[h][i].body = body

\* C27: when the handling of an event has ended at least one message was
\* handed to the gateway, and it fits the failure there was: the throttle
\* notice for a rate limit, the fallback reply for another LLM error, an
\* apologetic acknowledgment for a journal entry or a command that failed.
C27_FailureIsAnswered ==
  \A h \in Handlers :
    hpc[h] = "done" =>
      /\ outbox[h] # <<>>
      /\ failure[h] = "rate_limit" => Told(h, "throttle_reply") \/ Told(h, "fallback")
      /\ failure[h] = "llm" => Told(h, "fallback_reply") \/ Told(h, "fallback")
      /\ failure[h] = "journal" => Told(h, "journal_trouble") \/ Told(h, "fallback")
      /\ failure[h] = "command" => Told(h, "fallback")

\* C28: a replica goes into the scan (getAllScheduledUsers and what follows,
\* extendLock included) only in a tick in which its own attempt took the lock:
\* the lock record was absent and now names the replica.  A refused attempt
\* and an attempt whose store call failed skip the tick.
C28_FailedAttemptSkipsTick ==
  [][\A r \in Replicas :
       (spc[r] = "idle" /\ spc'[r] # "idle") =>
         (lock.holder = NoHolder /\ lock'.holder = r)]_vars

\* The handler is through with an event that stated a check-in preference
\* while the stage was ASK_CHECKIN, and processOnboarding ran for it.
Preferred(h, outcome) ==
  /\ pre[h].stage = ASK_CHECKIN
  /\ hmsg[h].checkIn = outcome
  /\ onboarded[h]

\* C29: in ASK_CHECKIN, setupCheckIns for a positive preference leaves a
\* schedule whose nextCheckIn and nextJournalPrompt are set and strictly in
\* the future; no step of the handling of a negative preference changes a
\* schedule; and when processOnboarding is through, for either outcome, the
\* stage is COMPLETE.
C29_PreferenceSetsScheduleAndCompletes ==
  [][\A h \in Handlers :
       /\ (Preferred(h, "yes") /\ hpc[h] = "setup" /\ hpc'[h] # "setup") =>
            /\ schedule'["u1"].exists
            /\ schedule'["u1"].nextCheckIn # Null
            /\ schedule'["u1"].nextJournalPrompt # Null
            /\ schedule'["u1"].nextCheckIn > clock
            /\ schedule'["u1"].nextJournalPrompt > clock
       /\ (Preferred(h, "no") /\ hpc[h] \notin {"idle", "done"}) => schedule' = schedule
       /\ (/\ Preferred(h, "yes") \/ Preferred(h, "no")
           /\ hpc[h] \in {"upd_set", "setup"}
           /\ hpc'[h] = "send") =>
            profile'.exists /\ profile'.onboardingStage = COMPLETE]_vars

\* C30: in every result of detectCrisis, isCrisis is true exactly when the
\* final riskLevel is not low; exactly then the crisis response of the level
\* is attached and the crisis log entry of the event is in the store; for
\* the level low nothing is attached, nothing is logged and no follow-up is
\* scheduled.
C30_CrisisResultIsConsistent ==
  cpc = "returned" =>
    /\ cResult.isCrisis <=> cResult.riskLevel # "low"
    /\ cResult.crisisResponse =
         IF cResult.isCrisis THEN getCrisisResponse(cResult.riskLevel) ELSE "null"
    /\ cResult.isCrisis => cResult.crisisResponse # "null"
    /\ cResult.logged <=> cResult.isCrisis
    /\ ~cResult.isCrisis => ~cResult.followUpAdded

\* C31: the replica that holds the lock record when its cron callback fires
\* is the leader of the tick and goes into the scan.  (One replica is looked
\* at: a tick it skips is a tick every replica skips.)
C31_HolderScansOnItsTick ==
  [][(ticks' # ticks /\ spc[1] = "idle" /\ lock.holder = 1) => spc'[1] = "list"]_vars

\* C32: extendLock at the end of a scan renews the lease only of a lock the
\* renewing replica still holds: the time to live of a record that names
\* another replica is not set by it.
C32_ExtendOnlyOwnLock ==
  [][\A r \in Replicas :
       (spc[r] = "extend" /\ spc'[r] = "idle" /\ lock.holder # r) => lock' = lock]_vars

\* C33: from the handling of "forget me" until the next inbound event of the
\* identity, no step of a scan hands a check-in, a journal prompt or a
\* follow-up for the identity to the gateway, also when the scan had read the
\* identity's schedule before the erasure.
C33_NoDispatchAfterErasure ==
  [][(erased /\ erased') =>
       /\ checkInSent'["u1"] = checkInSent["u1"]
       /\ followUpSent'["u1"] = followUpSent["u1"]
       /\ \A r \in Replicas :
            <<"u1", "journal">> \in tickFired'[r] => <<"u1", "journal">> \in tickFired[r]]_vars

\* C34: between the creation of a profile and its erasure the welcome message
\* is sent for one inbound event and no more, whatever the events and the
\* failures of the LLM are.  isNewUser is stats.messageCount === 0, and the
\* count grows only in updateUserStats, after a reply of the LLM.
C34_WelcomeOnce == welcomes <= 1

\* The entries of the running call in a list.
News(list) == Cardinality({i \in 1..Len(list) : list[i] = "new"})

\* C35: an addMessage (an addJournalEntry) that returns has appended one
\* entry to the history (to the bucket of the day), also when store calls
\* inside it failed and withRetry ran the operation again.
C35_ReturnedAppendsOnce ==
  oppc = "returned" =>
    IF opName = "addMessage" THEN News(conv) = 1 ELSE News(bucket) = 1

\* C36: a distress follow-up the risk assessor added to the schedule of an
\* identity stays there until a scan judges it due, unless the user sends a
\* stop or an erasure command: no other write of the schedule drops it.
C36_FollowUpStaysScheduled ==
  [][\A i \in 1..Len(schedule["u1"].followUps) :
       \/ \E j \in 1..Len(schedule'["u1"].followUps) :
            schedule'["u1"].followUps[j] = schedule["u1"].followUps[i]
       \/ \E r \in Replicas :
            /\ spc[r] = "ps_set"
            /\ Head(queue[r]) = "u1"
            /\ schedule["u1"].followUps[i] <= now[r]
            /\ \E k \in 1..Len(rd[r].followUps) :
                 rd[r].followUps[k] = schedule["u1"].followUps[i]
       \/ \E h \in Handlers :
            /\ hpc[h] = "command"
            /\ hmsg[h].kind \in {"stop", "forget"}]_vars

\* C37: a profile is created once per identity: the createUser of
\* getOrCreateUser never writes over a profile that is stored, also when two
\* events of an unknown identity are handled at the same time.
C37_CreateNeverOverwrites ==
  [][\A c \in Callers :
       (gpc[c] = "create" /\ gpc'[c] = "reply") => ~profile.exists]_vars

\* C38: onboarding sets up a check-in schedule for an identity only after
\* onboarding prompt 3, the question of the check-in preference, was sent to
\* it: the setupCheckIns of processOnboarding never stores a schedule for a
\* message received before the question.
C38_ScheduleOnlyAfterQuestion ==
  [][\A h \in Handlers :
       (hpc[h] = "setup" /\ hpc'[h] # "setup" /\ schedule'["u1"] # schedule["u1"]) =>
         asked # "no"]_vars

\* C39: the event that follows the sending of onboarding prompt 3 is read as
\* the check-in preference: when it is a positive reply, and the LLM replied,
\* processOnboarding ran and nothing failed, the identity has a schedule at
\* the end of its handling.
C39_PositiveReplyCreatesSchedule ==
  [][\A h \in Handlers :
       (/\ asked = "next"
        /\ hmsg[h].kind = "chat"
        /\ hmsg[h].checkIn = "yes"
        /\ generated[h]
        /\ onboarded[h]
        /\ failure[h] = "none"
        /\ hpc[h] = "send"
        /\ hpc'[h] = "done") => schedule'["u1"].exists]_vars

====
